---- MODULE Spec2Model ----
(***************************************************************************)
(* Model of the greenlight API's request pipeline core.                    *)
(*                                                                         *)
(*   SpecGuard    the optimistic-concurrency protocol of the data layer:   *)
(*                MovieModel.{Insert,Get,Update,Delete} and                *)
(*                UserModel.{Insert,GetByEmail,Update} run by concurrent   *)
(*                callers against the shared tables.  Every method is one  *)
(*                SQL statement, hence one atomic step.                    *)
(*   SpecLimiter  the rateLimit middleware: the per-client table, its      *)
(*                mutex, the request handler and the sweep goroutine.      *)
(***************************************************************************)
EXTENDS Integers, FiniteSets, Sequences, TLC

(***************************************************************************)
(* Bounds of the data-layer model.                                         *)
(***************************************************************************)
MaxId == 2
MaxVersion == 3
NumCallers == 2

Callers == 1..NumCallers
Ids == 1..MaxId
Vals == {"a", "b"}

\* version column default of a freshly inserted row (INSERT ... RETURNING version)
InitialVersion == 1

(***************************************************************************)
(* The movies and the users table are independent: no statement touches    *)
(* both.  A behaviour therefore exercises one of the two models, chosen in *)
(* the initial state, against its table.                                   *)
(***************************************************************************)
VARIABLES
  model,   \* "MovieModel" or "UserModel": the model the callers use
  rows,    \* its table: id -> [version, val] for the rows that exist;
           \* val is the title of a movie, the unique email of a user
  nextId,  \* next value of the table's id sequence
  cur,     \* cur[c]: the *Movie / *User struct caller c holds: [id, version], id 0 = none
  last,    \* outcome of the most recent model method call
  wins,    \* history: wins[id][v] = successful Updates submitted with version v
  held,    \* history: held[id] = versions the stored row has carried
  gone     \* history: ids whose row was deleted

guardVars == <<model, rows, nextId, cur, last, wins, held, gone>>

NoRes == [id |-> 0, version |-> 0]
NoCall == [op |-> "none", id |-> 0, version |-> 0, val |-> "a", err |-> "nil",
           before |-> 0, got |-> 0]

\* stored version of row id of table t, 0 when there is no such row
Stored(t, id) == IF id \in DOMAIN t THEN t[id].version ELSE 0

RECURSIVE SumTo(_, _)
SumTo(f, n) == IF n = 0 THEN 0 ELSE f[n] + SumTo(f, n - 1)

\* number of successful Updates of row id so far
NumWins(id) == SumTo(wins[id], MaxVersion)

(***************************************************************************)
(* Bounds and state of the rate-limiter model.  Time is counted in ticks,  *)
(* tokens in units of 1/TokenScale token, so that a bucket refills by      *)
(* fractions of a token; cfg.rps is in units per tick.                     *)
(***************************************************************************)
NumHandlers == 2
MaxRequests == 3
\* requests sent while the sweep goroutine is followed to its end
SweepRequests == 2
MaxBurst == 2
MaxTime == 3

\* units per token
TokenScale == 2
\* time.Minute, the period of the sweep ticker, in ticks
Minute == 2
\* the zero time.Time a new rate.Limiter carries as last: so long ago that
\* any positive rate has refilled any bucket of the model since
ZeroTime == 0 - 1000

Handlers == 1..NumHandlers
\* the well-formed remote addresses (their host)
IPs == {"ip1"}

\* r.RemoteAddr of a request: the address of a client, or one that
\* net.SplitHostPort cannot split into host and port
BadAddr == "ip1:1:2"
Addrs == IPs \cup {BadAddr}

\* net.SplitHostPort(addr) returns an error
SplitFails(addr) == addr \notin IPs

\* realip.FromRequest(r) with no X-Real-Ip and no X-Forwarded-For header: the
\* host of r.RemoteAddr; the error of net.SplitHostPort is dropped and the
\* host is then the empty string
FromRequest(addr) == IF SplitFails(addr) THEN "" ELSE addr

\* the keys the clients map can hold
Keys == {FromRequest(addr) : addr \in Addrs}

VARIABLES
  cfg,       \* app.config.limiter: [enabled, rps, burst, lastSeenMinutes]
  clients,   \* the clients map: ip -> [tokens, last, lastSeen]
  mu,        \* holder of the mutex mu: <<"free", 0>>, <<"sweep", 0>> or <<"handler", h>>
  now,       \* wall clock
  rq,        \* rq[h]: handler goroutine h and its request
  sw,        \* the sweep goroutine: [pc, scan, nextTick]; history: found, due
  resp,      \* history: number of responses sent so far, by status
  tally,     \* history: tally[ip] = Allow results of ip at one instant
  load       \* number of requests the clients are still to send

limVars == <<cfg, clients, mu, now, rq, sw, resp, tally, load>>

(***************************************************************************)
(* State of the authentication and authorization middleware: the tables    *)
(* it reads and the request it serves.  The middleware keeps nothing       *)
(* between requests, so one request at a time is followed while the tables *)
(* change under it.                                                        *)
(***************************************************************************)
VARIABLES
  users,        \* the users table as the middleware sees it: id -> [activated]
  tokens,       \* the tokens table: rows [hash, userID, expiry, scope]
  permissions,  \* users_permissions joined with permissions: id -> set of codes
  req           \* the request in the chain authenticate(router)

authVars == <<users, tokens, permissions, req>>

(***************************************************************************)
(* State of the user handlers, of the background tasks they schedule and   *)
(* of the server that runs them.                                           *)
(***************************************************************************)
VARIABLES
  reg,    \* the request in registerUserHandler
  act,    \* act[a]: the request of caller a in activateUserHandler
  tasks,  \* the background goroutines started so far, in the order of their start
  wg,     \* app.wg: the number of background tasks in flight
  srv     \* the process: serve and its shutdown goroutine

srvVars == <<reg, act, tasks, wg, srv>>

vars == <<guardVars, limVars, authVars, srvVars>>

\* the value of the context key before authenticate has set it
NoUser == [anon |-> FALSE, ID |-> 0 - 1, Activated |-> FALSE]

\* a request: chain are the handlers still to run, trace those that ran;
\* resp is the error helper that answered, served says that the route's
\* handler ran; lookups and fetches count the calls of Users.GetForToken and
\* Permissions.GetAllForUser, fetched is the permission set that came back,
\* fault the backend failure the request met; addr is r.RemoteAddr, closed
\* says that the response carries Connection: close, panicked names the
\* handler that panicked, follows says that the request before this one
\* panicked, wrote is the status line and the status field of the body that
\* the handler of the route wrote
NoRequest == [chain |-> << >>, header |-> << >>, gate |-> "none", code |-> "",
              user |-> NoUser, resp |-> "none", served |-> FALSE, trace |-> << >>,
              lookups |-> 0, fetches |-> 0, fetched |-> {}, fault |-> "none",
              addr |-> "", closed |-> FALSE, panicked |-> "none", follows |-> FALSE,
              wrote |-> << >>]

\* the middleware part while another part of the program runs
AuthIdle ==
  /\ users = << >>
  /\ tokens = {}
  /\ permissions = << >>
  /\ req = NoRequest

\* the callers of PUT /v1/users/activated
Activators == {"a1", "a2"}

\* registerUserHandler before a request: id is user.ID, plain is
\* token.Plaintext, task the background task scheduled; status is the status
\* line written, extra an error helper called after it, logged the last
\* event the request logged
NoRegister == [pc |-> "idle", email |-> "", id |-> 0, plain |-> << >>, task |-> 0,
               status |-> "none", extra |-> "none", logged |-> << >>]

\* activateUserHandler before a request: id and version are those of the
\* user that GetForToken returned
NoActivate == [pc |-> "idle", token |-> << >>, id |-> 0, version |-> 0,
               status |-> "none", logged |-> << >>]

\* the process while ListenAndServe accepts requests: result is what
\* srv.Shutdown returned, returned what serve returned
Serving == [pc |-> "serving", result |-> "none", expired |-> FALSE, returned |-> "none"]

\* the user handlers and the server while another part of the program runs
ServerIdle ==
  /\ reg = NoRegister
  /\ act = [a \in Activators |-> NoActivate]
  /\ tasks = << >>
  /\ wg = 0
  /\ srv = Serving

(***************************************************************************)
(* The data layer.                                                         *)
(***************************************************************************)

\* the row written by INSERT: the version column takes its default
InsertRow(val) == [version |-> InitialVersion, val |-> val]

\* t with row id set to row
Put(t, id, row) == [i \in DOMAIN t \cup {id} |-> IF i = id THEN row ELSE t[i]]

\* t without row id
Drop(t, id) == [i \in DOMAIN t \ {id} |-> t[i]]

\* a WHERE clause that forgets the version: WHERE id = $5
UpdateWhereAnyVersion(t, id, version) == id \in DOMAIN t

\* WHERE id = $5 AND version = $6
UpdateWhere(t, id, version) == id \in DOMAIN t /\ t[id].version = version

\* a SET clause that leaves the version alone
UpdateSetSameVersion(row, val) == [version |-> row.version, val |-> val]

\* a SET clause that skips a version: version = version + 2
UpdateSetSkip(row, val) == [version |-> row.version + 2, val |-> val]

\* SET ..., version = version + 1
UpdateSet(row, val) == [version |-> row.version + 1, val |-> val]

\* the users_email_key unique constraint: another row already carries email
EmailTaken(t, id, email) == \E i \in DOMAIN t : i # id /\ t[i].val = email

\* what the driver hands back for the UPDATE ... RETURNING version statement:
\* a backend fault, no row, a constraint violation, or the returned row
UpdateStmt(t, id, version, val, unique, fault) ==
  IF fault THEN "driver error"
  ELSE IF ~UpdateWhere(t, id, version) THEN "sql.ErrNoRows"
  ELSE IF unique /\ EmailTaken(t, id, val) THEN "users_email_key"
  ELSE "nil"

\* what the driver hands back for the INSERT ... RETURNING statement
InsertStmt(t, id, val, unique, fault) ==
  IF fault THEN "driver error"
  ELSE IF unique /\ EmailTaken(t, id, val) THEN "users_email_key"
  ELSE "nil"

\* the error switch of MovieModel.Update
MovieUpdateErr(dberr) ==
  CASE dberr = "sql.ErrNoRows" -> "ErrEditConflict"
    [] dberr # "nil" -> "error"
    [] OTHER -> "nil"

\* an error switch that reports the constraint violation as a version conflict
UserUpdateErrSwapped(dberr) ==
  CASE dberr = "nil" -> "nil"
    [] dberr \in {"users_email_key", "sql.ErrNoRows"} -> "ErrEditConflict"
    [] OTHER -> "error"

\* the error switch of UserModel.Update
UserUpdateErr(dberr) ==
  CASE dberr = "nil" -> "nil"
    [] dberr = "users_email_key" -> "ErrDuplicateEmail"
    [] dberr = "sql.ErrNoRows" -> "ErrEditConflict"
    [] OTHER -> "error"

\* the error switch of UserModel.Insert
UserInsertErr(dberr) ==
  CASE dberr = "nil" -> "nil"
    [] dberr = "users_email_key" -> "ErrDuplicateEmail"
    [] OTHER -> "error"

\* the record of a call: the struct submitted (id, version, val), the error
\* returned, the stored version of row id when the statement ran (before),
\* and the Version the caller's struct carries on return (got)
Call(op, id, version, val, err, before, got) ==
  [op |-> op, id |-> id, version |-> version, val |-> val, err |-> err,
   before |-> before, got |-> got]

Won(id, v) == [wins EXCEPT ![id][v] = @ + 1]
Held(id, v) == [held EXCEPT ![id] = @ \cup {v}]

\* Insert of either model: the struct's ID and Version are scanned from RETURNING
Insert(c, val, unique, dberr, err) ==
  /\ nextId <= MaxId
  /\ IF dberr = "nil"
       THEN /\ rows' = Put(rows, nextId, InsertRow(val))
            /\ nextId' = nextId + 1
            /\ cur' = [cur EXCEPT ![c] = [id |-> nextId, version |-> rows'[nextId].version]]
            /\ last' = Call("Insert", 0, 0, val, err, 0, rows'[nextId].version)
            /\ held' = Held(nextId, rows'[nextId].version)
       ELSE /\ last' = Call("Insert", 0, 0, val, err, 0, 0)
            /\ UNCHANGED <<rows, nextId, cur, held>>
  /\ UNCHANGED <<model, wins, gone, limVars, authVars, srvVars>>

MovieInsert(c, title, fault) ==
  /\ model = "MovieModel"
  /\ LET dberr == InsertStmt(rows, nextId, title, FALSE, fault) IN
       Insert(c, title, FALSE, dberr, IF dberr = "nil" THEN "nil" ELSE "error")

UserInsert(c, email, fault) ==
  /\ model = "UserModel"
  /\ LET dberr == InsertStmt(rows, nextId, email, TRUE, fault) IN
       Insert(c, email, TRUE, dberr, UserInsertErr(dberr))

\* a SELECT of one row into a fresh struct
Select(c, found, id, fault) ==
  /\ IF fault
       THEN /\ last' = Call("Get", id, 0, "a", "error", 0, 0)
            /\ cur' = cur
       ELSE IF ~found
       THEN /\ last' = Call("Get", id, 0, "a", "ErrRecordNotFound", 0, 0)
            /\ cur' = cur
       ELSE /\ last' = Call("Get", id, 0, "a", "nil", rows[id].version, rows[id].version)
            /\ cur' = [cur EXCEPT ![c] = [id |-> id, version |-> rows[id].version]]
  /\ UNCHANGED <<model, rows, nextId, wins, held, gone, limVars, authVars, srvVars>>

MovieGet(c, id, fault) ==
  /\ model = "MovieModel"
  /\ IF id < 1
       THEN /\ last' = Call("Get", id, 0, "a", "ErrRecordNotFound", 0, 0)
            /\ UNCHANGED <<model, rows, nextId, cur, wins, held, gone, limVars, authVars, srvVars>>
       ELSE Select(c, id \in DOMAIN rows, id, fault)

UserGetByEmail(c, email, fault) ==
  /\ model = "UserModel"
  /\ LET found == \E i \in DOMAIN rows : rows[i].val = email
         id == IF found THEN CHOOSE i \in DOMAIN rows : rows[i].val = email ELSE 0
     IN Select(c, found, id, fault)

\* an Update in two statements: the fields are written to the row of the
\* id, the version is compared afterwards
UpdateWriteThenCheck(c, val, dberr, err) ==
  /\ cur[c].id # 0
  /\ LET r == cur[c] IN
       /\ dberr = "nil" => rows[r.id].version < MaxVersion
       /\ rows' = IF dberr = "nil" THEN Put(rows, r.id, UpdateSet(rows[r.id], val))
                  ELSE IF dberr = "sql.ErrNoRows" /\ r.id \in DOMAIN rows
                    THEN Put(rows, r.id, [rows[r.id] EXCEPT !.val = val])
                  ELSE rows
       /\ cur' = [cur EXCEPT ![c] =
                    IF dberr = "nil" THEN [r EXCEPT !.version = rows'[r.id].version] ELSE r]
       /\ last' = Call("Update", r.id, r.version, val, err, Stored(rows, r.id),
                       cur'[c].version)
       /\ wins' = IF err = "nil" THEN Won(r.id, r.version) ELSE wins
       /\ held' = IF dberr = "nil" THEN Held(r.id, rows'[r.id].version) ELSE held
  /\ UNCHANGED <<model, nextId, gone, limVars, authVars, srvVars>>

\* Update of either model: one conditional write, the new version scanned
\* into the caller's struct when a row comes back
Update(c, val, dberr, err) ==
  /\ cur[c].id # 0
  /\ LET r == cur[c] IN
       /\ dberr = "nil" => rows[r.id].version < MaxVersion
       /\ rows' = IF dberr = "nil" THEN Put(rows, r.id, UpdateSet(rows[r.id], val)) ELSE rows
       /\ cur' = [cur EXCEPT ![c] =
                    IF dberr = "nil" THEN [r EXCEPT !.version = rows'[r.id].version] ELSE r]
       /\ last' = Call("Update", r.id, r.version, val, err, Stored(rows, r.id),
                       cur'[c].version)
       /\ wins' = IF err = "nil" THEN Won(r.id, r.version) ELSE wins
       /\ held' = IF dberr = "nil" THEN Held(r.id, rows'[r.id].version) ELSE held
  /\ UNCHANGED <<model, nextId, gone, limVars, authVars, srvVars>>

MovieUpdate(c, title, fault) ==
  /\ model = "MovieModel"
  /\ LET dberr == UpdateStmt(rows, cur[c].id, cur[c].version, title, FALSE, fault) IN
       Update(c, title, dberr, MovieUpdateErr(dberr))

UserUpdate(c, email, fault) ==
  /\ model = "UserModel"
  /\ LET dberr == UpdateStmt(rows, cur[c].id, cur[c].version, email, TRUE, fault) IN
       Update(c, email, dberr, UserUpdateErr(dberr))

MovieDelete(c, id, fault) ==
  /\ model = "MovieModel"
  /\ IF id < 1
       THEN /\ last' = Call("Delete", id, 0, "a", "ErrRecordNotFound", 0, 0)
            /\ UNCHANGED <<rows, gone>>
       ELSE IF fault
       THEN /\ last' = Call("Delete", id, 0, "a", "error", 0, 0)
            /\ UNCHANGED <<rows, gone>>
       ELSE IF id \notin DOMAIN rows
       THEN /\ last' = Call("Delete", id, 0, "a", "ErrRecordNotFound", 0, 0)
            /\ UNCHANGED <<rows, gone>>
       ELSE /\ last' = Call("Delete", id, 0, "a", "nil", rows[id].version, 0)
            /\ rows' = Drop(rows, id)
            /\ gone' = gone \cup {id}
  /\ UNCHANGED <<model, nextId, cur, wins, held, limVars, authVars, srvVars>>

\* the limiter part while only the data layer runs
LimiterIdle ==
  /\ cfg = [enabled |-> FALSE, rps |-> 1, burst |-> 1, lastSeenMinutes |-> 1]
  /\ clients = << >>
  /\ mu = <<"free", 0>>
  /\ now = 0
  /\ rq = << >>
  /\ sw = [pc |-> "off", scan |-> {}, nextTick |-> 0, found |-> {}, due |-> {}]
  /\ resp = << >>
  /\ tally = << >>
  /\ load = 0

InitGuard ==
  /\ model \in {"MovieModel", "UserModel"}
  /\ rows = << >>
  /\ nextId = 1
  /\ cur = [c \in Callers |-> NoRes]
  /\ last = NoCall
  /\ wins = [i \in Ids |-> [v \in 1..MaxVersion |-> 0]]
  /\ held = [i \in Ids |-> {}]
  /\ gone = {}
  /\ LimiterIdle
  /\ AuthIdle
  /\ ServerIdle

NextGuard ==
  \E c \in Callers, fault \in BOOLEAN :
    \/ \E title \in Vals : MovieInsert(c, title, fault)
    \/ \E id \in 0..MaxId : MovieGet(c, id, fault)
    \/ \E title \in Vals : MovieUpdate(c, title, fault)
    \/ \E id \in 0..MaxId : MovieDelete(c, id, fault)
    \/ \E email \in Vals : UserInsert(c, email, fault)
    \/ \E email \in Vals : UserGetByEmail(c, email, fault)
    \/ \E email \in Vals : UserUpdate(c, email, fault)

SpecGuard == InitGuard /\ [][NextGuard]_vars

(***************************************************************************)
(* Claims about the data layer, checked under SpecGuard.                   *)
(***************************************************************************)

\* the last call was an Update whose statement the store evaluated and did
\* not refuse for the unique constraint: its outcome is the version check's
Raced == last.op = "Update" /\ last.err \notin {"error", "ErrDuplicateEmail"}

\* C1: of the Updates submitted for one id with the same starting version v,
\* at most one succeeds; the one that finds v stored succeeds and gets v+1,
\* every one that finds another version (a concurrent one that lost, or one
\* submitted later with the stale v) gets ErrEditConflict, and a conflict on
\* a row that still exists means that exactly one Update submitted with v won.
C1_ExactlyOneWinner ==
  /\ \A id \in Ids, v \in 1..MaxVersion : wins[id][v] <= 1
  /\ Raced /\ last.before = last.version =>
       last.err = "nil" /\ last.got = last.version + 1
  /\ Raced /\ last.before # last.version => last.err = "ErrEditConflict"
  /\ last.op = "Update" /\ last.err = "ErrEditConflict" /\ last.id \in DOMAIN rows =>
       wins[last.id][last.version] = 1

\* an Update lost the race: it carried the version the winner had carried
C1_Witness ==
  /\ last.op = "Update" /\ last.err = "ErrEditConflict"
  /\ last.before = last.version + 1
  /\ wins[last.id][last.version] = 1

\* C2: an Update is one conditional write: a stored row changes only in an
\* Update that finds its id with its version, the row then carries the
\* submitted fields and version + 1, which is also the Version the caller's
\* struct has on return; an Update that does not find it changes nothing.
C2_SingleConditionalWrite ==
  [][/\ (last'.op = "Update" /\ UpdateWhere(rows, last'.id, last'.version)
           /\ last'.err = "nil") =>
          /\ rows' = Put(rows, last'.id, [version |-> last'.version + 1, val |-> last'.val])
          /\ last'.got = last'.version + 1
     /\ (last'.op = "Update" /\ ~UpdateWhere(rows, last'.id, last'.version)) =>
          /\ rows' = rows
          /\ last'.err # "nil"
          /\ last'.got = last'.version
     /\ (\E id \in DOMAIN rows \cap DOMAIN rows' : rows'[id] # rows[id]) =>
          /\ last'.op = "Update"
          /\ UpdateWhere(rows, last'.id, last'.version)
    ]_vars

\* an Update succeeded and its caller holds the new version
C2_Witness ==
  /\ last.op = "Update" /\ last.err = "nil"
  /\ last.got = last.version + 1
  /\ Stored(rows, last.id) = last.got

\* C3: the versions a row has carried are exactly InitialVersion up to its
\* current version (none skipped, none repeated, never lower than before),
\* the current version is InitialVersion plus the number of successful
\* Updates of the row, and a deleted id never carries a row again.
C3_VersionMonotone ==
  \A id \in Ids :
    /\ id \in DOMAIN rows =>
         /\ held[id] = InitialVersion..rows[id].version
         /\ rows[id].version = InitialVersion + NumWins(id)
    /\ id \in gone => id \notin DOMAIN rows /\ id < nextId
    /\ id \notin DOMAIN rows =>
         held[id] = (IF id \in gone THEN InitialVersion..(InitialVersion + NumWins(id)) ELSE {})

\* a row was updated twice while another one was deleted
C3_Witness ==
  /\ gone # {}
  /\ \E id \in DOMAIN rows : rows[id].version = InitialVersion + 2

\* C4: an Update that matches no row reports not-found when the id does not
\* exist and the edit conflict only when the id exists with another version.
C4_NotFoundDisambiguated ==
  Raced /\ last.before # last.version =>
    /\ last.before = 0 => last.err = "ErrRecordNotFound"
    /\ last.before # 0 => last.err = "ErrEditConflict"

\* C5: the users table never holds one email twice; Insert and Update report
\* ErrDuplicateEmail exactly for a write refused by the unique constraint;
\* Insert never reports ErrEditConflict and Update reports it only when its
\* id with its version was not found.
C5_DuplicateIsNotConflict ==
  model = "UserModel" =>
    /\ \A i, j \in DOMAIN rows : i # j => rows[i].val # rows[j].val
    /\ last.err = "ErrDuplicateEmail" =>
         /\ last.op \in {"Insert", "Update"}
         /\ EmailTaken(rows, IF last.op = "Insert" THEN nextId ELSE last.id, last.val)
         /\ last.op = "Update" => last.before = last.version
    /\ (last.op = "Update" /\ last.err # "error" /\ last.before = last.version
          /\ EmailTaken(rows, last.id, last.val)) => last.err = "ErrDuplicateEmail"
    /\ last.op = "Insert" => last.err \in {"nil", "ErrDuplicateEmail", "error"}
    /\ last.err = "ErrEditConflict" => last.op = "Update" /\ last.before # last.version

\* an Update of a user was refused for a duplicate email although its version matched
C5_Witness ==
  /\ model = "UserModel"
  /\ last.op = "Update" /\ last.err = "ErrDuplicateEmail"
  /\ last.before = last.version

\* C37: an Update of either model that returns ErrEditConflict has written
\* nothing: every row keeps its fields and its version, no row appears or
\* disappears, the id sequence stands, and the struct of the caller, like
\* that of every other caller, keeps the id and the stale Version it was
\* submitted with.
C37_ConflictLeavesStore ==
  [][(last'.op = "Update" /\ last'.err = "ErrEditConflict") =>
       /\ rows' = rows
       /\ nextId' = nextId
       /\ cur' = cur
       /\ last'.got = last'.version
       /\ wins' = wins /\ held' = held /\ gone' = gone
       /\ \E c \in Callers : cur[c].id = last'.id /\ cur[c].version = last'.version
       /\ Stored(rows, last'.id) # last'.version]_vars

\* an Update with other fields met a newer version: the row keeps its
\* fields and the caller its stale version
C37_Witness ==
  /\ last.op = "Update" /\ last.err = "ErrEditConflict"
  /\ last.id \in DOMAIN rows
  /\ rows[last.id].val # last.val
  /\ rows[last.id].version = last.version + 1
  /\ last.got = last.version
  /\ \E c \in Callers : cur[c].id = last.id /\ cur[c].version = last.version

(***************************************************************************)
(* The rateLimit middleware.                                               *)
(***************************************************************************)
Min(a, b) == IF a < b THEN a ELSE b
Max(a, b) == IF a > b THEN a ELSE b

Rates == {1}

\* rate.NewLimiter: an empty bucket last touched at the zero time
NewLimiter == [tokens |-> 0, last |-> ZeroTime]

\* &client{limiter: rate.NewLimiter(...)}: lastSeen is the zero time
NewClient == [tokens |-> NewLimiter.tokens, last |-> NewLimiter.last, lastSeen |-> ZeroTime]

\* an advance that forgets the cap of the bucket
AdvanceNoCap(lim, t, rps, burst) ==
  LET from == IF t < lim.last THEN t ELSE lim.last
  IN  lim.tokens + (t - from) * rps

\* Limiter.advance: the tokens of lim at time t, capped at burst
Advance(lim, t, rps, burst) ==
  LET from == IF t < lim.last THEN t ELSE lim.last
      elapsed == t - from
      delta == elapsed * rps
  IN  Min(lim.tokens + delta, burst * TokenScale)

\* Limiter.reserveN(t, 1, 0).ok: one token is there now
ReserveOK(lim, t, rps, burst) == 1 <= burst /\ Advance(lim, t, rps, burst) - TokenScale >= 0

\* Limiter.reserveN: the state is updated only when the reservation is ok
Reserve(lim, t, rps, burst) ==
  IF ReserveOK(lim, t, rps, burst)
    THEN [lim EXCEPT !.tokens = Advance(lim, t, rps, burst) - TokenScale, !.last = t]
    ELSE [lim EXCEPT !.last = IF t < lim.last THEN t ELSE lim.last]

\* tokens client ip could take at time t; a client not in the table would be
\* given a full bucket
Available(cl, ip, t) ==
  IF ip \in DOMAIN cl THEN Advance(cl[ip], t, cfg.rps, cfg.burst) ELSE cfg.burst * TokenScale

\* a middleware that wraps next whatever the configuration says
WrappedAlways(enabled) == TRUE

\* if !app.config.limiter.enabled { return next }
Wrapped(enabled) == enabled

Unlocked == <<"free", 0>>

\* a Lock that does not wait
CanLockAlways(m) == TRUE

\* mu.Lock() returns once the mutex is free
CanLock(m) == m = Unlocked

\* a lookup that creates the client on every request
MissingAlways(cl, ip) == TRUE

\* if _, found := clients[ip]; !found
Missing(cl, ip) == ip \notin DOMAIN cl

\* lastSeen written only for a client just created
SeenOnlyNew(entry, t) == IF entry.lastSeen = ZeroTime THEN t ELSE entry.lastSeen

\* lastSeen written with the time truncated to the minute
SeenMinute(entry, t) == (t \div Minute) * Minute

\* clients[ip].lastSeen = time.Now()
Seen(entry, t) == t

\* time.Duration(app.config.limiter.lastSeenMinutes) * time.Minute, in ticks
IdleWindow == cfg.lastSeenMinutes * Minute

\* an eviction test that is off by one sweep period
IdleLate(entry, t, minutes) == t - entry.lastSeen > (minutes + 1) * Minute

\* an eviction test that evicts at the threshold: >= for >
IdleEarly(entry, t, minutes) == t - entry.lastSeen >= minutes * Minute

\* time.Since(client.lastSeen) > lastSeenMinutes * time.Minute
Idle(entry, t, minutes) == t - entry.lastSeen > minutes * Minute

IdleHandler == [pc |-> "idle", addr |-> "ip1", ip |-> "ip1", status |-> 0, ok |-> FALSE,
                made |-> FALSE, took |-> 0, seenWas |-> ZeroTime, at |-> ZeroTime]

NoTally == [at |-> ZeroTime, fresh |-> FALSE, ok |-> 0, ko |-> 0]

InFlight == Cardinality({h \in Handlers : rq[h].pc # "idle"})

\* a request from addr reaches the middleware chain on goroutine h
Arrive(h, addr) ==
  /\ rq[h].pc = "idle"
  /\ load > 0
  /\ load' = load - 1
  /\ rq' = [rq EXCEPT ![h] = [IdleHandler EXCEPT
               !.pc = IF Wrapped(cfg.enabled) THEN "lock" ELSE "next",
               !.addr = addr, !.ip = FromRequest(addr)]]
  /\ UNCHANGED <<cfg, clients, mu, now, sw, resp, tally, guardVars, authVars, srvVars>>

\* mu.Lock()
Lock(h) ==
  /\ rq[h].pc = "lock"
  /\ CanLock(mu)
  /\ mu' = <<"handler", h>>
  /\ rq' = [rq EXCEPT ![h].pc = "find"]
  /\ UNCHANGED <<cfg, clients, now, sw, resp, tally, load, guardVars, authVars, srvVars>>

\* the lookup, and the creation of the client when it is not found
Find(h) ==
  /\ rq[h].pc = "find"
  /\ LET ip == rq[h].ip
         missing == Missing(clients, ip)
     IN
       /\ clients' = IF missing THEN Put(clients, ip, NewClient) ELSE clients
       /\ rq' = [rq EXCEPT ![h].pc = "seen", ![h].made = ip \notin DOMAIN clients]
  /\ UNCHANGED <<cfg, mu, now, sw, resp, tally, load, guardVars, authVars, srvVars>>

\* clients[ip].lastSeen = time.Now()
Touch(h) ==
  /\ rq[h].pc = "seen"
  /\ LET ip == rq[h].ip IN
       /\ clients' = [clients EXCEPT ![ip].lastSeen = Seen(clients[ip], now)]
       /\ rq' = [rq EXCEPT ![h].pc = "allow", ![h].seenWas = clients[ip].lastSeen,
                           ![h].at = now]
  /\ UNCHANGED <<cfg, mu, now, sw, resp, tally, load, guardVars, authVars, srvVars>>

\* a limiter with one bucket for all the clients: Allow takes the token
\* from every entry of the table
AllowShared(h) ==
  /\ rq[h].pc = "allow"
  /\ LET ip == rq[h].ip
         lim == [tokens |-> clients[ip].tokens, last |-> clients[ip].last]
         ok == ReserveOK(lim, now, cfg.rps, cfg.burst)
         after == Reserve(lim, now, cfg.rps, cfg.burst)
         t == tally[ip]
         run == IF rq[h].made THEN [at |-> now, fresh |-> TRUE, ok |-> 0, ko |-> 0]
                ELSE IF t.at = now THEN t
                ELSE [at |-> now, fresh |-> FALSE, ok |-> 0, ko |-> 0]
     IN
       /\ clients' = [k \in DOMAIN clients |->
                       [clients[k] EXCEPT !.tokens = after.tokens, !.last = after.last]]
       /\ rq' = [rq EXCEPT ![h].pc = IF ok THEN "admitted" ELSE "rejected",
                           ![h].ok = ok,
                           ![h].took = Available(clients, ip, now) - Available(clients', ip, now)]
       /\ tally' = [tally EXCEPT ![ip] =
                      IF ok THEN [run EXCEPT !.ok = @ + 1] ELSE [run EXCEPT !.ko = @ + 1]]
  /\ UNCHANGED <<cfg, mu, now, sw, resp, load, guardVars, authVars, srvVars>>

\* clients[ip].limiter.Allow()
Allow(h) ==
  /\ rq[h].pc = "allow"
  /\ LET ip == rq[h].ip
         lim == [tokens |-> clients[ip].tokens, last |-> clients[ip].last]
         ok == ReserveOK(lim, now, cfg.rps, cfg.burst)
         after == Reserve(lim, now, cfg.rps, cfg.burst)
         t == tally[ip]
         run == IF rq[h].made THEN [at |-> now, fresh |-> TRUE, ok |-> 0, ko |-> 0]
                ELSE IF t.at = now THEN t
                ELSE [at |-> now, fresh |-> FALSE, ok |-> 0, ko |-> 0]
     IN
       /\ clients' = [clients EXCEPT ![ip].tokens = after.tokens, ![ip].last = after.last]
       /\ rq' = [rq EXCEPT ![h].pc = IF ok THEN "admitted" ELSE "rejected",
                           ![h].ok = ok,
                           ![h].took = Available(clients, ip, now) - Available(clients', ip, now)]
       /\ tally' = [tally EXCEPT ![ip] =
                      IF ok THEN [run EXCEPT !.ok = @ + 1] ELSE [run EXCEPT !.ko = @ + 1]]
  /\ UNCHANGED <<cfg, mu, now, sw, resp, load, guardVars, authVars, srvVars>>

\* mu.Unlock(); app.rateLimitExceededResponse(w, r); return
UnlockReject(h) ==
  /\ rq[h].pc = "rejected"
  /\ mu' = Unlocked
  /\ rq' = [rq EXCEPT ![h] = [IdleHandler EXCEPT !.addr = rq[h].addr, !.ip = rq[h].ip, !.ok = rq[h].ok,
                                                 !.status = 429]]
  /\ resp' = [resp EXCEPT !.tooMany = @ + 1]
  /\ UNCHANGED <<cfg, clients, now, sw, tally, load, guardVars, authVars, srvVars>>

\* mu.Unlock() on the admitted path
UnlockNext(h) ==
  /\ rq[h].pc = "admitted"
  /\ mu' = Unlocked
  /\ rq' = [rq EXCEPT ![h].pc = "next"]
  /\ UNCHANGED <<cfg, clients, now, sw, resp, tally, load, guardVars, authVars, srvVars>>

\* next.ServeHTTP(w, r): the healthcheck of an anonymous request answers 200
ServeNext(h) ==
  /\ rq[h].pc = "next"
  /\ rq' = [rq EXCEPT ![h] = [IdleHandler EXCEPT !.addr = rq[h].addr, !.ip = rq[h].ip, !.ok = rq[h].ok,
                                                 !.status = 200]]
  /\ resp' = [resp EXCEPT !.ok = @ + 1]
  /\ UNCHANGED <<cfg, clients, mu, now, sw, tally, load, guardVars, authVars, srvVars>>

\* for range ticker.C: a tick of the ticker is received
SweepTick ==
  /\ sw.pc = "wait"
  /\ now >= sw.nextTick
  /\ sw' = [sw EXCEPT !.pc = "lock", !.nextTick = ((now \div Minute) + 1) * Minute]
  /\ UNCHANGED <<cfg, clients, mu, now, rq, resp, tally, load, guardVars, authVars, srvVars>>

\* mu.Lock() of the sweep; the range loop then visits the entries of the map
SweepLock ==
  /\ sw.pc = "lock"
  /\ CanLock(mu)
  /\ mu' = <<"sweep", 0>>
  /\ sw' = [sw EXCEPT !.pc = "scan", !.scan = DOMAIN clients, !.found = DOMAIN clients,
                      !.due = {ip \in DOMAIN clients : now - clients[ip].lastSeen > IdleWindow}]
  /\ UNCHANGED <<cfg, clients, now, rq, resp, tally, load, guardVars, authVars, srvVars>>

\* one iteration of the range loop
SweepVisit(ip) ==
  /\ sw.pc = "scan"
  /\ ip \in sw.scan
  /\ clients' = IF ip \in DOMAIN clients /\ Idle(clients[ip], now, cfg.lastSeenMinutes)
                  THEN Drop(clients, ip) ELSE clients
  /\ sw' = [sw EXCEPT !.scan = @ \ {ip}]
  /\ UNCHANGED <<cfg, mu, now, rq, resp, tally, load, guardVars, authVars, srvVars>>

\* mu.Unlock() of the sweep
SweepUnlock ==
  /\ sw.pc = "scan"
  /\ sw.scan = {}
  /\ mu' = Unlocked
  /\ sw' = [sw EXCEPT !.pc = "wait"]
  /\ UNCHANGED <<cfg, clients, now, rq, resp, tally, load, guardVars, authVars, srvVars>>

\* time passes
Tick ==
  /\ now < MaxTime
  /\ now' = now + 1
  /\ UNCHANGED <<cfg, clients, mu, rq, sw, resp, tally, load, guardVars, authVars, srvVars>>

\* the data-layer part while only the limiter runs
GuardIdle ==
  /\ model = "MovieModel"
  /\ rows = << >>
  /\ nextId = 1
  /\ cur = << >>
  /\ last = NoCall
  /\ wins = << >>
  /\ held = << >>
  /\ gone = {}

InitLimiter ==
  /\ cfg \in [enabled : BOOLEAN, rps : Rates, burst : 0..MaxBurst, lastSeenMinutes : {1}]
  /\ clients = << >>
  /\ mu = Unlocked
  /\ now = 0
  /\ rq = [h \in Handlers |-> IdleHandler]
  /\ sw = [pc |-> IF Wrapped(cfg.enabled) THEN "wait" ELSE "off", scan |-> {},
           nextTick |-> Minute, found |-> {}, due |-> {}]
  /\ resp = [ok |-> 0, tooMany |-> 0]
  /\ tally = [ip \in Keys |-> NoTally]
  /\ load = MaxRequests
  /\ GuardIdle
  /\ AuthIdle
  /\ ServerIdle

NextLimiter ==
  \/ \E h \in Handlers, addr \in Addrs : Arrive(h, addr)
  \/ \E h \in Handlers : Lock(h)
  \/ \E h \in Handlers : Find(h)
  \/ \E h \in Handlers : Touch(h)
  \/ \E h \in Handlers : Allow(h)
  \/ \E h \in Handlers : UnlockReject(h)
  \/ \E h \in Handlers : UnlockNext(h)
  \/ \E h \in Handlers : ServeNext(h)
  \/ SweepTick
  \/ SweepLock
  \/ \E ip \in Keys : SweepVisit(ip)
  \/ SweepUnlock
  \/ Tick

SpecLimiter == InitLimiter /\ [][NextLimiter]_vars

(***************************************************************************)
(* Claims about the rate limiter, checked under SpecLimiter.               *)
(*                                                                         *)
(* rq[h] keeps, for the request goroutine h is serving: made (its client   *)
(* was not in the table when it looked), seenWas (the lastSeen it found),  *)
(* at (the time it wrote as lastSeen), ok (what Allow returned) and took   *)
(* (the units by which Allow lowered the client's available tokens).       *)
(* tally[ip] counts the results of the Allow calls made for ip at the      *)
(* instant tally[ip].at; fresh says the run began with a client that was   *)
(* not in the table.                                                       *)
(***************************************************************************)

\* C6: with the limiter enabled, of n requests a client not seen before
\* makes at one instant (no refill), min(n, burst) are admitted and
\* max(0, n - burst) rejected; an admitted request is answered 200, a
\* rejected one 429, and there is no other answer.
C6_BurstExact ==
  cfg.enabled =>
    /\ \A ip \in Keys :
         tally[ip].fresh =>
           LET n == tally[ip].ok + tally[ip].ko IN
             /\ tally[ip].ok = Min(n, cfg.burst)
             /\ tally[ip].ko = Max(0, n - cfg.burst)
    /\ \A h \in Handlers :
         /\ rq[h].status \in {0, 200, 429}
         /\ rq[h].status # 0 => rq[h].status = (IF rq[h].ok THEN 200 ELSE 429)
         /\ rq[h].pc \in {"admitted", "next"} => rq[h].ok
         /\ rq[h].pc = "rejected" => ~rq[h].ok
    /\ resp.ok + resp.tooMany + InFlight + load = MaxRequests

\* a new client used up its burst and was then rejected
C6_Witness ==
  /\ cfg.enabled /\ cfg.burst >= 1
  /\ resp.tooMany >= 1
  /\ \E ip \in Keys : tally[ip].fresh /\ tally[ip].ok = cfg.burst /\ tally[ip].ko >= 1

\* C7: the tokens of every client, stored and available now, lie between 0
\* and burst, and at one instant at most burst requests of a client are
\* admitted, however long the client was idle before.
C7_TokensWithinBurst ==
  /\ \A ip \in DOMAIN clients :
       /\ 0 <= clients[ip].tokens /\ clients[ip].tokens <= cfg.burst * TokenScale
       /\ 0 <= Available(clients, ip, now) /\ Available(clients, ip, now) <= cfg.burst * TokenScale
  /\ \A ip \in Keys : tally[ip].ok <= cfg.burst

\* a client was idle for so long that its refill is cut at burst
C7_Witness ==
  \E ip \in DOMAIN clients :
    /\ clients[ip].last # ZeroTime
    /\ clients[ip].tokens + (now - clients[ip].last) * cfg.rps > cfg.burst * TokenScale
    /\ Available(clients, ip, now) = cfg.burst * TokenScale

\* C8 as stated: an admitted request lowers the available tokens by one
\* token; a rejected request leaves the available tokens and the lastSeen
\* of the client's entry as they were.
C8_RejectLeavesEntry ==
  \A h \in Handlers :
    /\ rq[h].pc = "admitted" => rq[h].took = TokenScale
    /\ rq[h].pc = "rejected" =>
         /\ rq[h].took = 0
         /\ clients[rq[h].ip].lastSeen = rq[h].seenWas

\* C8 as amended: an admitted request lowers the available tokens by one
\* token; a rejected request is answered 429 and leaves the available
\* tokens as they were, while lastSeen is the time of the request after
\* either.
C8_RejectKeepsTokens ==
  \A h \in Handlers :
    /\ rq[h].pc = "admitted" =>
         /\ rq[h].took = TokenScale
         /\ clients[rq[h].ip].lastSeen = rq[h].at
    /\ rq[h].pc = "rejected" =>
         /\ rq[h].took = 0
         /\ clients[rq[h].ip].lastSeen = rq[h].at
         /\ rq[h].at >= rq[h].seenWas
    /\ rq[h].status = 429 => ~rq[h].ok
    /\ rq[h].pc \in {"admitted", "rejected"} => rq[h].at <= now /\ rq[h].at >= 0

\* a request of a known client is rejected and has moved its lastSeen
C8_Witness ==
  \E h \in Handlers :
    /\ rq[h].pc = "rejected" /\ ~rq[h].made
    /\ rq[h].took = 0
    /\ rq[h].seenWas < clients[rq[h].ip].lastSeen

\* C9: with the limiter disabled every request goes to the next handler: no
\* request is answered 429, the client table stays empty, the mutex is
\* never taken and the sweep goroutine does not exist.
C9_DisabledPassThrough ==
  ~cfg.enabled =>
    /\ clients = << >>
    /\ resp.tooMany = 0
    /\ sw.pc = "off"
    /\ mu = Unlocked
    /\ \A h \in Handlers : rq[h].pc \in {"idle", "next"} /\ rq[h].status \in {0, 200}
    /\ \A ip \in Keys : tally[ip] = NoTally

\* more requests than burst were served at one instant with the limiter disabled
C9_Witness ==
  /\ ~cfg.enabled
  /\ now = 0
  /\ cfg.burst >= 1
  /\ resp.ok > cfg.burst

InTable(h) == rq[h].pc \in {"find", "seen", "allow", "admitted", "rejected"}

\* C10: at most one goroutine (handler or sweep) is inside the client table
\* and it holds the mutex; from the lookup or creation of a request's entry
\* to its token consumption the entry stays in the table and keeps the
\* lastSeen the request wrote.
C10_TableExclusive ==
  /\ Cardinality({h \in Handlers : InTable(h)}) + (IF sw.pc = "scan" THEN 1 ELSE 0) <= 1
  /\ \A h \in Handlers : InTable(h) <=> mu = <<"handler", h>>
  /\ sw.pc = "scan" <=> mu = <<"sweep", 0>>
  /\ \A h \in Handlers :
       /\ rq[h].pc \in {"seen", "allow", "admitted", "rejected"} => rq[h].ip \in DOMAIN clients
       /\ rq[h].pc = "allow" => clients[rq[h].ip].lastSeen = rq[h].at

\* the sweep waits for the mutex while a request is between refreshing and
\* consuming an entry that the sweep would have found idle
C10_Witness ==
  /\ sw.pc = "lock"
  /\ \E h \in Handlers :
       /\ rq[h].pc = "allow" /\ ~rq[h].made
       /\ Idle([lastSeen |-> rq[h].seenWas], now, cfg.lastSeenMinutes)

(***************************************************************************)
(* The sweep goroutine.  SpecSweep runs the middleware with the limiter    *)
(* enabled and an idle window of zero or one minute, so that entries       *)
(* cross their idle threshold well inside the modelled time.  The Go       *)
(* scheduler runs every runnable goroutine and time passes: each step of   *)
(* the sweep goroutine and of a request inside the critical section is     *)
(* weakly fair, and so is the clock.                                       *)
(*                                                                         *)
(* sw.found are the keys that were in the table when the current (or the   *)
(* last) sweep took the mutex, sw.due those of them that had been idle for *)
(* longer than the idle window at that moment.                             *)
(***************************************************************************)
InitSweep ==
  /\ cfg \in [enabled : {TRUE}, rps : Rates, burst : {1}, lastSeenMinutes : {0, 1}]
  /\ clients = << >>
  /\ mu = Unlocked
  /\ now = 0
  /\ rq = [h \in Handlers |-> IdleHandler]
  /\ sw = [pc |-> "wait", scan |-> {}, nextTick |-> Minute, found |-> {}, due |-> {}]
  /\ resp = [ok |-> 0, tooMany |-> 0]
  /\ tally = [ip \in Keys |-> NoTally]
  /\ load = SweepRequests
  /\ GuardIdle
  /\ AuthIdle
  /\ ServerIdle

FairSweep ==
  /\ WF_vars(Tick)
  /\ WF_vars(SweepTick)
  /\ WF_vars(SweepLock)
  /\ \A ip \in Keys : WF_vars(SweepVisit(ip))
  /\ WF_vars(SweepUnlock)
  /\ \A h \in Handlers :
       /\ WF_vars(Lock(h))
       /\ WF_vars(Find(h))
       /\ WF_vars(Touch(h))
       /\ WF_vars(Allow(h))
       /\ WF_vars(UnlockReject(h))
       /\ WF_vars(UnlockNext(h))

SpecSweep == InitSweep /\ [][NextLimiter]_vars /\ FairSweep

\* the last tick of the ticker within the modelled time
LastTick == (MaxTime \div Minute) * Minute

\* the entry of ip has its idle threshold before the last tick
Due(ip) == ip \in DOMAIN clients /\ clients[ip].lastSeen + IdleWindow < LastTick

\* the entry of ip is between its creation and the write of its lastSeen
Fresh(ip) == \E h \in Handlers : rq[h].pc = "seen" /\ rq[h].ip = ip

\* C11: when a sweep has visited the table, no entry is left that had been
\* idle for longer than the idle window when the sweep began, so that the
\* table is empty if every entry had; an entry whose idle threshold lies
\* before a later tick is eventually evicted unless a request refreshes it,
\* and a tick of the ticker leads to a sweep whether requests arrive or not.
C11_IdleTableEmptied ==
  /\ [](sw.pc = "scan" /\ sw.scan = {} =>
          /\ DOMAIN clients \cap sw.due = {}
          /\ DOMAIN clients \subseteq sw.found
          /\ sw.due = sw.found => clients = << >>)
  /\ \A ip \in Keys : Due(ip) ~> ~Due(ip)
  /\ (sw.pc = "wait" /\ now >= sw.nextTick) ~> (sw.pc = "scan")

\* a sweep found the entries of two clients, all idle, and left an empty
\* table while no request was in flight
C11_Witness ==
  /\ sw.pc = "wait"
  /\ Cardinality(sw.found) >= 2
  /\ sw.due = sw.found
  /\ clients = << >>
  /\ InFlight = 0

\* C12: an entry leaves the table only in a visit of the sweep that finds
\* the time since its lastSeen greater than the idle window, and every visit
\* that finds it so removes the entry; successive ticks are at most one
\* minute apart, and while no tick is pending every entry is less than one
\* sweep period past its idle threshold.
C12_EvictOnlyIdle ==
  /\ [][/\ \A ip \in DOMAIN clients \ DOMAIN clients' :
             /\ sw.pc = "scan" /\ ip \in sw.scan /\ ip \notin sw'.scan
             /\ now - clients[ip].lastSeen > IdleWindow
        /\ \A ip \in sw.scan \ sw'.scan :
             (ip \in DOMAIN clients /\ now - clients[ip].lastSeen > IdleWindow)
               => ip \notin DOMAIN clients'
        /\ sw'.nextTick # sw.nextTick =>
             sw'.nextTick > now /\ sw'.nextTick - now <= Minute
       ]_vars
  /\ [](sw.pc = "wait" /\ now < sw.nextTick =>
          \A ip \in DOMAIN clients :
            ~Fresh(ip) => now - (clients[ip].lastSeen + IdleWindow) < Minute)

\* a sweep evicted an entry that was past its idle window and kept one that
\* was not
C12_Witness ==
  /\ sw.pc = "wait"
  /\ \E ip \in sw.due : ip \notin DOMAIN clients
  /\ \E ip \in sw.found \ sw.due : ip \in DOMAIN clients

\* the limiter could not derive the client key of the request h serves or
\* has served last
NoKey(h) == cfg.enabled /\ SplitFails(rq[h].addr)

\* C13: with the limiter enabled, a request whose client key cannot be
\* derived ends with an internal server error: no entry is created or
\* touched for it, no token is consumed, it is not answered 429 and the
\* next handler is not invoked.
C13_NoKeyIsServerError ==
  \A h \in Handlers :
    NoKey(h) =>
      /\ rq[h].pc \notin {"seen", "allow", "admitted", "rejected", "next"}
      /\ rq[h].status \in {0, 500}

(***************************************************************************)
(* The authenticate middleware and the authorization gates.                *)
(*                                                                         *)
(* A header value is a sequence of symbols: the space " " and words        *)
(* without a space.  A part of a split header is the sequence of the words *)
(* between two spaces, the empty sequence being the empty string.          *)
(***************************************************************************)
UserIds == {1, 2}
Codes == {"movies:read", "movies:write"}

ScopeActivation == "activation"
ScopeAuthentication == "authentication"

\* plaintexts as generateToken makes them: 16 random bytes in base32
\* without padding, 26 characters of the alphabet A-Z, 2-7
Generated == {"tokA", "tokB", "tokC", "tokX", "tokD", "tokE"}

\* token plaintexts of 26 bytes, one of them with a character outside the
\* base32 alphabet, and one that is shorter
Plain26 == Generated \cup {"tok!"}

\* the plaintexts that generateToken draws while the program runs
Later == {"tokD", "tokE"}

\* the plaintexts that requests present
Plaintexts == (Plain26 \ Later) \cup {"short"}

\* the Authorization header values of the requests
Headers ==
  {<< >>, <<" ">>, <<"Bearer">>, <<"Bearer", " ">>, <<"tokA">>,
   <<"Basic", " ", "tokA">>, <<"bearer", " ", "tokA">>,
   <<"Bearer", " ", "tokA", " ">>, <<"Bearer", " ", " ", "tokA">>,
   <<"Bearer", " ", "tokA", " ", "tokB">>}
    \cup {<<"Bearer", " ", t>> : t \in Plaintexts}

\* len(word) in bytes
WordLen(w) ==
  CASE w \in Plain26 -> 26
    [] w \in {"Bearer", "bearer"} -> 6
    [] OTHER -> 5

RECURSIVE StrLen(_)
\* len(s) of a string given by its words
StrLen(s) == IF s = << >> THEN 0 ELSE WordLen(Head(s)) + StrLen(Tail(s))

RECURSIVE Split(_)
\* strings.Split(s, " ")
Split(s) ==
  IF s = << >> THEN << << >> >>
  ELSE LET rest == Split(Tail(s)) IN
         IF Head(s) = " " THEN << << >> >> \o rest
         ELSE << <<Head(s)>> \o Head(rest) >> \o Tail(rest)

\* a check that takes every header for a credential
NoCredentialNever(header) == FALSE

\* authorizationHeader == ""
NoCredential(header) == header = << >>

\* a check that looks at the scheme only
BearerShapeLoose(parts) == parts[1] = <<"Bearer">> /\ Len(parts) >= 2

\* !(len(headerParts) != 2 || headerParts[0] != "Bearer")
BearerShape(parts) == Len(parts) = 2 /\ parts[1] = <<"Bearer">>

\* a validation that checks only that a token was provided
ValidateTokenPlaintextProvided(token) == token # << >>

\* data.ValidateTokenPlaintext followed by validate.Valid()
ValidateTokenPlaintext(token) == token # << >> /\ StrLen(token) = 26

\* sha256.Sum256([]byte(tokenPlaintext))
Hash(token) == <<"sha256", token>>

\* backend failures of a query: none, a driver error, the context deadline
Faults == {"none", "driver error", "context deadline exceeded"}

\* a query that still selects a token at its expiry instant
TokenRowsAtExpiry(scope, token, t) ==
  {r \in tokens : /\ r.userID \in DOMAIN users
                  /\ r.hash = Hash(token)
                  /\ r.scope = scope
                  /\ r.expiry >= t}

\* the rows the query of GetForToken selects at time t
TokenRows(scope, token, t) ==
  {r \in tokens : /\ r.userID \in DOMAIN users
                  /\ r.hash = Hash(token)
                  /\ r.scope = scope
                  /\ r.expiry > t}

\* a lookup that reports an expired token with an error of its own
GetForTokenTellsExpired(scope, token, t, fault) ==
  IF fault # "none" THEN [err |-> "error", user |-> NoUser]
  ELSE IF TokenRows(scope, token, t) = {}
    THEN [err |-> IF \E r \in tokens : r.hash = Hash(token) /\ r.scope = scope
                    THEN "ErrTokenExpired" ELSE "ErrRecordNotFound",
          user |-> NoUser]
  ELSE LET r == CHOOSE r \in TokenRows(scope, token, t) : TRUE IN
         [err |-> "nil",
          user |-> [anon |-> FALSE, ID |-> r.userID, Activated |-> users[r.userID].activated]]

\* UserModel.GetForToken: the user is scanned into a fresh User struct
GetForToken(scope, token, t, fault) ==
  IF fault # "none" THEN [err |-> "error", user |-> NoUser]
  ELSE IF TokenRows(scope, token, t) = {} THEN [err |-> "ErrRecordNotFound", user |-> NoUser]
  ELSE LET r == CHOOSE r \in TokenRows(scope, token, t) : TRUE IN
         [err |-> "nil",
          user |-> [anon |-> FALSE, ID |-> r.userID, Activated |-> users[r.userID].activated]]

\* PermissionModel.GetAllForUser
GetAllForUser(userID, fault) ==
  IF fault # "none" THEN [err |-> "error", perms |-> {}]
  ELSE [err |-> "nil",
        perms |-> IF userID \in DOMAIN permissions THEN permissions[userID] ELSE {}]

\* a containment test that any permission satisfies
IncludeAny(perms, code) == perms # {}

\* Permissions.Include: slices.Contains(p, code)
Include(perms, code) == code \in perms

\* data.AnonymousUser = &User{}
AnonymousUser == [anon |-> TRUE, ID |-> 0, Activated |-> FALSE]

\* User.IsAnonymous: u == AnonymousUser, a comparison of pointers
IsAnonymous(user) == user.anon

\* an error switch that takes every error of the lookup for a bad token
LookupResponseAllInvalid(err) ==
  IF err = "nil" THEN "none" ELSE "invalidAuthenticationTokenResponse"

\* the error switch of authenticate after Users.GetForToken
LookupResponse(err) ==
  CASE err = "ErrRecordNotFound" -> "invalidAuthenticationTokenResponse"
    [] err # "nil" -> "serverErrorResponse"
    [] OTHER -> "none"

\* requireAuthenticatedUser(next)
requireAuthenticatedUser(next) == <<"requireAuthenticatedUser">> \o next

\* a requireActivatedUser that does not wrap itself in requireAuthenticatedUser
requireActivatedUserBare(next) == <<"requireActivatedUser">> \o next

\* requireActivatedUser(next): return app.requireAuthenticatedUser(handler)
requireActivatedUser(next) == requireAuthenticatedUser(<<"requireActivatedUser">> \o next)

\* a requirePermission that wraps itself in requireAuthenticatedUser only
requirePermissionBare(next) == requireAuthenticatedUser(<<"requirePermission">> \o next)

\* a requirePermission that looks up the permissions before the activation check
requirePermissionEarly(next) ==
  requireAuthenticatedUser(<<"requirePermission", "requireActivatedUser">> \o next)

\* requirePermission(code, next): return app.requireActivatedUser(handler)
requirePermission(next) == requireActivatedUser(<<"requirePermission">> \o next)

\* authenticate(next)
authenticate(next) == <<"authenticate">> \o next

Gates == {"none", "requireAuthenticatedUser", "requireActivatedUser", "requirePermission"}

\* a router whose every route is behind requireAuthenticatedUser at least
ChainAllGated(gate) ==
  authenticate(CASE gate = "requireAuthenticatedUser" -> requireAuthenticatedUser(<<"handler">>)
                 [] gate = "requireActivatedUser" -> requireActivatedUser(<<"handler">>)
                 [] gate = "requirePermission" -> requirePermission(<<"handler">>)
                 [] OTHER -> requireAuthenticatedUser(<<"handler">>))

\* a router that puts authenticate in front of the gated routes only
ChainPublicBare(gate) ==
  CASE gate = "requireAuthenticatedUser" -> authenticate(requireAuthenticatedUser(<<"handler">>))
    [] gate = "requireActivatedUser" -> authenticate(requireActivatedUser(<<"handler">>))
    [] gate = "requirePermission" -> authenticate(requirePermission(<<"handler">>))
    [] OTHER -> <<"handler">>

\* app.authenticate(router) with a route whose handler is wrapped by gate
Chain(gate) ==
  authenticate(CASE gate = "requireAuthenticatedUser" -> requireAuthenticatedUser(<<"handler">>)
                 [] gate = "requireActivatedUser" -> requireActivatedUser(<<"handler">>)
                 [] gate = "requirePermission" -> requirePermission(<<"handler">>)
                 [] OTHER -> <<"handler">>)

\* the request is at handler name
At(name) == req.chain # << >> /\ Head(req.chain) = name

\* the handler calls next.ServeHTTP
CallNext(r) == [r EXCEPT !.chain = Tail(@), !.trace = Append(@, Head(r.chain))]

\* the handler writes the error response helper and returns
Respond(r, helper) ==
  [r EXCEPT !.chain = << >>, !.trace = Append(@, Head(r.chain)), !.resp = helper]

\* a request with Authorization header reaches authenticate; its route is
\* wrapped by gate (with code, for requirePermission)
Begin(header, gate, code) ==
  /\ req.chain = << >>
  /\ gate # "requirePermission" => code = ""
  /\ gate = "requirePermission" => code \in Codes
  /\ req' = [NoRequest EXCEPT !.chain = Chain(gate), !.header = header,
                              !.gate = gate, !.code = code]
  /\ UNCHANGED <<users, tokens, permissions, guardVars, limVars, srvVars>>

\* the handler of authenticate
AuthenticateHandler(fault) ==
  /\ At("authenticate")
  /\ LET parts == Split(req.header)
         token == parts[2]
         got == GetForToken(ScopeAuthentication, token, now, fault)
     IN
       req' =
         IF NoCredential(req.header)
           THEN CallNext([req EXCEPT !.user = AnonymousUser])
         ELSE IF ~BearerShape(parts)
           THEN Respond(req, "invalidAuthenticationTokenResponse")
         ELSE IF ~ValidateTokenPlaintext(token)
           THEN Respond(req, "invalidAuthenticationTokenResponse")
         ELSE IF LookupResponse(got.err) # "none"
           THEN Respond([req EXCEPT !.lookups = @ + 1, !.fault = fault],
                        LookupResponse(got.err))
         ELSE CallNext([req EXCEPT !.lookups = @ + 1, !.fault = fault, !.user = got.user])
  /\ UNCHANGED <<users, tokens, permissions, guardVars, limVars, srvVars>>

\* the handler of requireAuthenticatedUser
AuthenticatedHandler ==
  /\ At("requireAuthenticatedUser")
  /\ req' = IF IsAnonymous(req.user)
              THEN Respond(req, "authenticationRequiredResponse")
              ELSE CallNext(req)
  /\ UNCHANGED <<users, tokens, permissions, guardVars, limVars, srvVars>>

\* the handler of requireActivatedUser
ActivatedHandler ==
  /\ At("requireActivatedUser")
  /\ req' = IF ~req.user.Activated
              THEN Respond(req, "inactiveAccountResponse")
              ELSE CallNext(req)
  /\ UNCHANGED <<users, tokens, permissions, guardVars, limVars, srvVars>>

\* the handler of requirePermission
PermissionHandler(fault) ==
  /\ At("requirePermission")
  /\ LET got == GetAllForUser(req.user.ID, fault)
         r == [req EXCEPT !.fetches = @ + 1, !.fault = fault, !.fetched = got.perms]
     IN
       req' = IF got.err # "nil" THEN Respond(r, "serverErrorResponse")
              ELSE IF ~Include(got.perms, req.code) THEN Respond(r, "notPermitted")
              ELSE CallNext(r)
  /\ UNCHANGED <<users, tokens, permissions, guardVars, limVars, srvVars>>

\* healthcheckHandler: writeJSON(w, http.StatusOK, envelope{"status":
\* "available", ...}); json.Marshal of the three strings does not fail
healthcheckHandler == <<"StatusOK", "available">>

\* the handler of the route; the route behind no gate that is followed to
\* its response is GET /v1/healthcheck
RouteHandler ==
  /\ At("handler")
  /\ req' = [CallNext(req) EXCEPT !.served = TRUE,
                                  !.wrote = IF req.gate = "none" THEN healthcheckHandler
                                            ELSE << >>]
  /\ UNCHANGED <<users, tokens, permissions, guardVars, limVars, srvVars>>

\* activateUserHandler of another request: user.Activated = true, Users.Update
ActivateUser(u) ==
  /\ u \in DOMAIN users
  /\ ~users[u].activated
  /\ users' = [users EXCEPT ![u].activated = TRUE]
  /\ UNCHANGED <<tokens, permissions, req, guardVars, limVars, srvVars>>

\* Permissions.AddForUser of another request
AddForUser(u, code) ==
  /\ u \in DOMAIN permissions
  /\ code \notin permissions[u]
  /\ permissions' = [permissions EXCEPT ![u] = @ \cup {code}]
  /\ UNCHANGED <<users, tokens, req, guardVars, limVars, srvVars>>

\* the tokens issued before the requests: an authentication token of each
\* user and an activation token of user 1
IssuedTokens ==
  {[hash |-> Hash(<<"tokA">>), userID |-> 1, expiry |-> 2, scope |-> ScopeAuthentication],
   [hash |-> Hash(<<"tokB">>), userID |-> 2, expiry |-> MaxTime + 1, scope |-> ScopeAuthentication],
   [hash |-> Hash(<<"tokC">>), userID |-> 1, expiry |-> MaxTime + 1, scope |-> ScopeActivation]}

InitAuth ==
  /\ users = [u \in UserIds |-> [activated |-> FALSE]]
  /\ tokens = IssuedTokens
  /\ permissions = [u \in UserIds |-> {}]
  /\ req = NoRequest
  /\ GuardIdle
  /\ LimiterIdle
  /\ ServerIdle

NextAuth ==
  \/ \E header \in Headers, gate \in Gates, code \in Codes \cup {""} : Begin(header, gate, code)
  \/ \E fault \in Faults : AuthenticateHandler(fault)
  \/ AuthenticatedHandler
  \/ ActivatedHandler
  \/ \E fault \in Faults : PermissionHandler(fault)
  \/ RouteHandler
  \/ \E u \in UserIds : ActivateUser(u)
  \/ \E u \in UserIds, code \in Codes : AddForUser(u, code)
  \/ Tick

SpecAuth == InitAuth /\ [][NextAuth]_vars

\* handler h is between mu.Lock and mu.Unlock and takes a step
InLimiter(h) == rq[h].pc \in {"find", "seen", "allow"} /\ rq'[h] # rq[h]

\* C33: a request of one client key leaves the entry of every other key as
\* it is: it does not create it, refresh its lastSeen or take its tokens,
\* and it does not count in the other's admissions; whether the request is
\* admitted depends on the tokens of its own entry alone, so a request is
\* rejected only when its own bucket holds no token.
C33_BucketsPerKey ==
  [][\A h \in Handlers :
       InLimiter(h) =>
         /\ \A k \in Keys \ {rq[h].ip} :
              /\ k \in DOMAIN clients' <=> k \in DOMAIN clients
              /\ k \in DOMAIN clients => clients'[k] = clients[k]
              /\ tally'[k] = tally[k]
         /\ rq[h].ip \in DOMAIN clients'
         /\ rq[h].pc = "allow" =>
              /\ rq'[h].ok <=> Available(clients, rq[h].ip, now) >= TokenScale /\ cfg.burst >= 1
              /\ ~rq'[h].ok => Available(clients, rq[h].ip, now) < TokenScale]_vars

\* at one instant the client ip1 has used up its bucket and was rejected,
\* and the request of another client key was admitted with a full bucket
C33_Witness ==
  /\ cfg.enabled /\ cfg.burst = 1
  /\ tally["ip1"].at = now /\ tally["ip1"].ko >= 1
  /\ Available(clients, "ip1", now) < TokenScale
  /\ \E h \in Handlers :
       /\ rq[h].ip # "ip1" /\ rq[h].pc = "admitted" /\ rq[h].made
       /\ rq[h].took = TokenScale

\* C34: every request that reaches the table writes the time of that moment
\* as the lastSeen of its client before Allow decides, so the entry of a
\* rejected request carries the time of the request as that of an admitted
\* one does; lastSeen changes in no other way and never goes back.  The
\* sweep removes an entry only when its last request, admitted or rejected,
\* wrote its lastSeen more than the idle window ago: a client whose
\* requests follow each other within the window stays in the table.
C34_RequestsKeepEntry ==
  /\ [][/\ \A h \in Handlers :
             (rq[h].pc = "seen" /\ rq'[h].pc = "allow") =>
               /\ clients'[rq[h].ip].lastSeen = now
               /\ rq'[h].at = now
        /\ \A ip \in DOMAIN clients \cap DOMAIN clients' :
             clients'[ip].lastSeen # clients[ip].lastSeen =>
               /\ \E h \in Handlers : rq[h].pc = "seen" /\ rq[h].ip = ip
               /\ clients'[ip].lastSeen = now
               /\ clients'[ip].lastSeen >= clients[ip].lastSeen
        /\ \A ip \in DOMAIN clients \ DOMAIN clients' :
             /\ now - clients[ip].lastSeen > IdleWindow
             /\ \A h \in Handlers : InTable(h) => rq[h].ip # ip]_vars
  /\ [](\A h \in Handlers :
          rq[h].pc \in {"allow", "admitted", "rejected"} =>
            /\ rq[h].ip \in DOMAIN clients
            /\ \A t \in rq[h].at..(rq[h].at + IdleWindow) :
                 ~Idle(clients[rq[h].ip], t, cfg.lastSeenMinutes))

\* every request was rejected, the client sent two of them, and the sweep
\* that visited its entry at the end of the time kept it
C34_Witness ==
  /\ cfg.enabled /\ cfg.burst = 0
  /\ resp.ok = 0 /\ resp.tooMany >= 2
  /\ tally["ip1"].ko >= 1 /\ tally["ip1"].at >= 1
  /\ now = MaxTime
  /\ sw.pc = "scan"
  /\ "ip1" \in sw.found \ sw.scan
  /\ "ip1" \in DOMAIN clients
  /\ now - clients["ip1"].lastSeen <= IdleWindow

(***************************************************************************)
(* Claims about authenticate and the gates, checked under SpecAuth.        *)
(***************************************************************************)

\* the handlers of a route behind requirePermission, outermost first
GateOrder == <<"authenticate", "requireAuthenticatedUser", "requireActivatedUser",
               "requirePermission", "handler">>

\* authenticate has run for the request
Authenticated == Len(req.trace) >= 1

\* the request is over
Over == Authenticated /\ req.chain = << >>

\* the principal of the request was resolved from a token
Resolved == req.lookups = 1 /\ req.user # NoUser

\* the handlers that ran for the request
Ran == {req.trace[i] : i \in 1..Len(req.trace)}

\* C14: behind requirePermission(code) the handlers run in the order
\* authenticated, activated, permitted, each at most once, and the route's
\* handler runs only for a principal that is not Anonymous, has Activated
\* set and whose permission set, fetched once in that request, contains code.
C14_PermissionGateGuards ==
  req.gate = "requirePermission" =>
    /\ Len(req.trace) <= Len(GateOrder)
    /\ \A i \in 1..Len(req.trace) : req.trace[i] = GateOrder[i]
    /\ req.fetches <= 1
    /\ req.served =>
         /\ ~req.user.anon /\ req.user # NoUser
         /\ req.user.Activated
         /\ req.fetches = 1
         /\ req.code \in req.fetched
         /\ req.resp = "none"

\* a handler behind requirePermission ran for a principal with two permissions
C14_Witness ==
  /\ req.gate = "requirePermission"
  /\ req.served
  /\ req.fetched = Codes

\* C15: a principal resolved from a token whose Activated is false is
\* answered the inactive-account error behind requireActivatedUser and
\* behind requirePermission; its permission set is not fetched and the
\* route's handler does not run.
C15_InactiveRejected ==
  (req.gate \in {"requireActivatedUser", "requirePermission"}
     /\ Resolved /\ ~req.user.Activated) =>
    /\ req.fetches = 0
    /\ "requirePermission" \notin Ran
    /\ ~req.served
    /\ req.resp \in {"none", "inactiveAccountResponse"}
    /\ Over => req.resp = "inactiveAccountResponse"

\* a principal that holds the permission of the route is rejected as inactive
C15_Witness ==
  /\ req.gate = "requirePermission"
  /\ Resolved /\ ~req.user.Activated
  /\ req.resp = "inactiveAccountResponse"
  /\ req.code \in permissions[req.user.ID]

\* C16: behind requirePermission(code) an activated principal resolved from
\* a token is answered notPermitted exactly when the permission set fetched
\* does not contain code itself, whatever else it contains; the same
\* principal passes requireAuthenticatedUser and requireActivatedUser, and
\* notPermitted is answered by requirePermission only.
C16_NotPermitted ==
  /\ (Resolved /\ req.user.Activated) =>
       /\ (req.gate = "requirePermission" /\ req.fetches = 1
             /\ req.resp # "serverErrorResponse") =>
            /\ req.code \notin req.fetched <=> req.resp = "notPermitted"
            /\ req.code \in req.fetched <=> req.resp = "none"
            /\ req.resp = "notPermitted" => ~req.served
       /\ req.gate \in {"requireAuthenticatedUser", "requireActivatedUser"} =>
            /\ req.resp = "none"
            /\ Over => req.served
  /\ req.resp = "notPermitted" =>
       /\ req.gate = "requirePermission"
       /\ Resolved /\ req.user.Activated

\* an activated principal that holds another permission is answered notPermitted
C16_Witness ==
  /\ req.gate = "requirePermission"
  /\ req.resp = "notPermitted"
  /\ req.fetched # {}
  /\ req.code \notin req.fetched

\* C17: the Anonymous principal is answered the authentication-required
\* error behind each of the three gates and never the inactive-account
\* error, and a principal resolved from a token is never Anonymous.
C17_AnonymousUnauthenticated ==
  /\ (IsAnonymous(req.user) /\ req.gate # "none") =>
       /\ req.resp \in {"none", "authenticationRequiredResponse"}
       /\ ~req.served
       /\ Ran \subseteq {"authenticate", "requireAuthenticatedUser"}
       /\ Over => req.resp = "authenticationRequiredResponse"
  /\ req.resp = "authenticationRequiredResponse" => req.user = AnonymousUser
  /\ req.resp = "inactiveAccountResponse" => req.user # AnonymousUser
  /\ req.lookups > 0 => req.user # AnonymousUser /\ ~IsAnonymous(req.user)
  /\ req.user = AnonymousUser => req.header = << >> /\ req.lookups = 0

\* an anonymous request to a route behind requirePermission was rejected
C17_Witness ==
  /\ req.gate = "requirePermission"
  /\ req.user = AnonymousUser
  /\ req.resp = "authenticationRequiredResponse"

\* C18: a request that meets a backend failure, a deadline timeout
\* included, in the token lookup of authenticate or in the permission
\* retrieval of requirePermission is answered the server error, not an
\* authentication or authorization error, and the route's handler does not
\* run.
C18_BackendFailureIsServerError ==
  req.fault # "none" =>
    /\ req.resp = "serverErrorResponse"
    /\ ~req.served
    /\ "handler" \notin Ran
    /\ req.chain = << >>
    /\ req.lookups + req.fetches >= 1

\* the token lookup of a well-formed credential timed out
C18_Witness ==
  /\ req.fault = "context deadline exceeded"
  /\ req.lookups = 1 /\ req.fetches = 0
  /\ req.resp = "serverErrorResponse"

\* C19: for a request without an Authorization header authenticate sets
\* the Anonymous principal, makes no lookup, answers no error and calls the
\* next handler.
C19_NoHeaderIsAnonymous ==
  (Authenticated /\ req.header = << >>) =>
    /\ req.user = AnonymousUser
    /\ req.lookups = 0
    /\ req.resp \notin {"invalidAuthenticationTokenResponse", "serverErrorResponse"}
    /\ req.chain # << >> \/ Len(req.trace) >= 2
    /\ (req.gate = "none" /\ Over) => req.served /\ req.resp = "none"

\* a request without credential was served by a route behind no gate
C19_Witness ==
  /\ Authenticated /\ req.header = << >>
  /\ req.gate = "none"
  /\ req.served

\* the header is the word Bearer, one space, and a rest without a space
WellShaped(header) ==
  /\ Len(header) >= 2
  /\ header[1] = "Bearer"
  /\ header[2] = " "
  /\ \A i \in 3..Len(header) : header[i] # " "

\* C20: a non-empty Authorization header that is not exactly two
\* space-separated parts with first part Bearer is answered the
\* authentication error by authenticate, without any lookup and without the
\* next handler being called.
C20_MalformedHeaderRejected ==
  (Authenticated /\ req.header # << >> /\ ~WellShaped(req.header)) =>
    /\ req.resp = "invalidAuthenticationTokenResponse"
    /\ req.lookups = 0
    /\ req.trace = <<"authenticate">>
    /\ req.chain = << >>
    /\ ~req.served

\* a live token sent with a scheme in lower case was rejected
C20_Witness ==
  /\ req.header = <<"bearer", " ", "tokA">>
  /\ req.resp = "invalidAuthenticationTokenResponse"
  /\ TokenRows(ScopeAuthentication, <<"tokA">>, now) # {}

\* the token of a well-shaped header
TokenOf(header) == SubSeq(header, 3, Len(header))

\* every character of the token is of the alphabet of generateToken
InAlphabet(token) == \A i \in 1..Len(token) : token[i] # "tok!"

\* C21 as stated: a token of wrong length or with a character outside the
\* token alphabet is answered the authentication error without the store
\* being queried.
C21_ShapeCheckedBeforeLookup ==
  (Authenticated /\ WellShaped(req.header)
     /\ (StrLen(TokenOf(req.header)) # 26 \/ ~InAlphabet(TokenOf(req.header)))) =>
    /\ req.resp = "invalidAuthenticationTokenResponse"
    /\ req.lookups = 0

\* C21 amended: a token that is empty or not 26 bytes long is answered the
\* authentication error by authenticate without the store being queried and
\* without the next handler being called; a token of 26 bytes is looked up
\* in the store whatever its characters.
C21_LengthCheckedBeforeLookup ==
  (Authenticated /\ WellShaped(req.header)) =>
    /\ StrLen(TokenOf(req.header)) # 26 =>
         /\ req.resp = "invalidAuthenticationTokenResponse"
         /\ req.lookups = 0
         /\ req.trace = <<"authenticate">>
         /\ req.chain = << >>
         /\ ~req.served
    /\ StrLen(TokenOf(req.header)) = 26 => req.lookups = 1

\* a token that is too short was rejected
C21_Witness ==
  /\ req.header = <<"Bearer", " ", "short">>
  /\ req.resp = "invalidAuthenticationTokenResponse"
  /\ req.lookups = 0

\* authenticate queries the store in this step and the backend answers
LookupStep ==
  /\ At("authenticate")
  /\ req'.lookups = req.lookups + 1
  /\ req'.fault = "none"

\* C22: the lookup of authenticate yields a principal if and only if the
\* store holds a token whose hash is the hash of the plaintext, whose scope
\* is authentication and whose expiry is strictly later than now, and the
\* principal is that token's user; a token of scope activation does not
\* resolve, and no token resolves at or after its expiry instant.
C22_ResolvesIffLiveTokenOfScope ==
  [][LookupStep =>
       LET hash == Hash(TokenOf(req.header)) IN
         /\ req'.user # NoUser <=>
              \E r \in tokens : /\ r.hash = hash
                                /\ r.scope = ScopeAuthentication
                                /\ now < r.expiry
         /\ req'.user # NoUser =>
              /\ req'.resp = "none"
              /\ \E r \in tokens : r.hash = hash /\ r.userID = req'.user.ID
         /\ req'.user = NoUser => req'.resp = "invalidAuthenticationTokenResponse"
         /\ (\A r \in tokens : r.hash = hash => r.scope = ScopeActivation) =>
              req'.user = NoUser
         /\ (\A r \in tokens : r.hash = hash => now >= r.expiry) =>
              req'.user = NoUser]_vars

\* the token of user 1 was presented at its expiry instant and was not resolved
C22_Witness ==
  /\ req.header = <<"Bearer", " ", "tokA">>
  /\ req.lookups = 1 /\ req.fault = "none"
  /\ req.user = NoUser
  /\ \E r \in tokens : r.hash = Hash(<<"tokA">>) /\ r.expiry = now

\* the reasons why a token of 26 bytes does not match at the lookup
Unknown(hash) == \A r \in tokens : r.hash # hash
Expired(hash) ==
  /\ \E r \in tokens : r.hash = hash /\ r.scope = ScopeAuthentication
  /\ \A r \in tokens : (r.hash = hash /\ r.scope = ScopeAuthentication) => now >= r.expiry
WrongScope(hash) ==
  /\ \E r \in tokens : r.hash = hash
  /\ \A r \in tokens : r.hash = hash => r.scope # ScopeAuthentication

\* what the caller of a request sees of it
Visible(r) == [resp |-> r.resp, served |-> r.served, passed |-> r.chain # << >>,
               ran |-> r.trace]

\* C23: whatever the reason why a well-shaped token does not match at the
\* lookup of authenticate (unknown, expired, of the wrong scope), the caller
\* sees one and the same outcome: the authentication error, answered by
\* authenticate, nothing behind it having run.
C23_MismatchesLookAlike ==
  [][(LookupStep /\ LET hash == Hash(TokenOf(req.header)) IN
                      Unknown(hash) \/ Expired(hash) \/ WrongScope(hash)) =>
       Visible(req') = [resp |-> "invalidAuthenticationTokenResponse", served |-> FALSE,
                        passed |-> FALSE, ran |-> <<"authenticate">>]]_vars

\* an activation token presented as a credential was answered the
\* authentication error
C23_Witness ==
  /\ req.header = <<"Bearer", " ", "tokC">>
  /\ req.lookups = 1 /\ req.fault = "none"
  /\ req.resp = "invalidAuthenticationTokenResponse"
  /\ \E r \in tokens : r.hash = Hash(<<"tokC">>) /\ r.scope = ScopeActivation /\ now < r.expiry

(***************************************************************************)
(* registerUserHandler, activateUserHandler, the background tasks and the  *)
(* shutdown of the server.                                                 *)
(*                                                                         *)
(* Every statement of a handler that calls the database is a step of its   *)
(* own: other requests run between two statements.  The closure that       *)
(* registerUserHandler hands to app.background assigns the handler's       *)
(* variable err, so the variable is shared by the handler and its task.    *)
(***************************************************************************)
MaxTasks == 2

\* the email addresses of the registrations; a@x is taken by user 1
Emails == {"a@x", "b@x", "d@x"}

\* the bodies of POST /v1/users: not JSON, a user that fails ValidateUser,
\* or a valid user with the email
RegisterBodies == {"malformed", "invalid"} \cup Emails

\* the bodies of PUT /v1/users/activated: not JSON, or a token
ActivateBodies ==
  {[json |-> FALSE, token |-> << >>]}
    \cup {[json |-> TRUE, token |-> <<t>>] : t \in {"short", "tokA", "tokC", "tokX", "tokD"}}

\* the results of mailer.Send: sent, an error, a panic
Outcomes == {"nil", "sending msg", "panic"}

\* 3*24*time.Hour, the lifetime of an activation token
ActivationTTL == 3 * 24 * 60 * Minute

\* the process runs
Alive == srv.pc \notin {"exited", "crashed"}

\* the requests the server is answering
Active ==
  {<<"register">> : x \in {r \in {reg} : r.pc \notin {"idle", "done"}}}
    \cup {<<"activate", a>> : a \in {b \in Activators : act[b].pc \notin {"idle", "done"}}}

\* nextval of the users id sequence
NextUserID == (CHOOSE u \in DOMAIN users : \A v \in DOMAIN users : v <= u) + 1

\* generateToken with the random plaintext plain
generateToken(userID, ttl, scope, plain) ==
  [Plaintext |-> plain, Hash |-> Hash(plain), UserID |-> userID,
   Expiry |-> now + ttl, Scope |-> scope]

\* an insert that stores the plaintext in the hash column
TokenInsertPlaintext(token) ==
  [hash |-> token.Plaintext, userID |-> token.UserID, expiry |-> token.Expiry,
   scope |-> token.Scope]

\* TokenModel.Insert: the row INSERT INTO tokens (hash, user_id, expiry, scope)
TokenInsert(token) ==
  [hash |-> token.Hash, userID |-> token.UserID, expiry |-> token.Expiry,
   scope |-> token.Scope]

\* a delete that removes the tokens of the user whatever their scope
DeleteAllForUserAnyScope(scope, userID) == {r \in tokens : r.userID # userID}

\* TokenModel.DeleteAllForUser: DELETE FROM tokens WHERE scope = $1 AND user_id = $2
DeleteAllForUser(scope, userID) ==
  {r \in tokens : ~(r.scope = scope /\ r.userID = userID)}

\* app.background(fn): the task is counted in app.wg and started on a
\* goroutine of its own; err is the variable the closure shares with the
\* handler, data what the closure holds for the mail
background(err, data) ==
  [pc |-> "go", err |-> err, data |-> data, outcome |-> "none", logged |-> << >>]

\* the deferred recover of the goroutine started by app.background: the
\* panic is logged and the task ends
recovered(task) ==
  [task EXCEPT !.pc = "done", !.outcome = "panic", !.logged = <<"panic">>]

\* the handler writes the response of the error helper and returns
RegisterFail(helper, event) ==
  [reg EXCEPT !.pc = "done", !.status = helper, !.logged = event]

\* POST /v1/users reaches registerUserHandler: readJSON, Password.Set, ValidateUser
RegisterBegin(body) ==
  /\ srv.pc = "serving"
  /\ reg.pc \in {"idle", "done"}
  /\ Len(tasks) < MaxTasks
  /\ reg' = CASE body = "malformed" ->
                   [NoRegister EXCEPT !.pc = "done", !.status = "badRequestResponse"]
              [] body = "invalid" ->
                   [NoRegister EXCEPT !.pc = "done", !.status = "failedValidationResponse"]
              [] OTHER -> [NoRegister EXCEPT !.pc = "insert", !.email = body]
  /\ UNCHANGED <<act, tasks, wg, srv, users, tokens, permissions, req, guardVars, limVars>>

\* a handler that answers the duplicate email and goes on to the grant of
\* the permission: the return of the case is missing
RegisterInsertNoReturn(fault) ==
  /\ Alive
  /\ reg.pc = "insert"
  /\ IF fault # "none"
       THEN /\ reg' = RegisterFail("serverErrorResponse", <<"inserting user", fault>>)
            /\ users' = users
     ELSE IF \E u \in DOMAIN users : users[u].email = reg.email
       THEN /\ reg' = [reg EXCEPT !.pc = "permission", !.status = "failedValidationResponse"]
            /\ users' = users
     ELSE /\ reg' = [reg EXCEPT !.pc = "permission", !.id = NextUserID]
          /\ users' = users @@ (NextUserID :> [email |-> reg.email, activated |-> FALSE,
                                               version |-> InitialVersion])
  /\ UNCHANGED <<act, tasks, wg, srv, tokens, permissions, req, guardVars, limVars>>

\* err = app.models.Users.Insert(user) and the switch on err
RegisterInsert(fault) ==
  /\ Alive
  /\ reg.pc = "insert"
  /\ IF fault # "none"
       THEN /\ reg' = RegisterFail("serverErrorResponse", <<"inserting user", fault>>)
            /\ users' = users
     ELSE IF \E u \in DOMAIN users : users[u].email = reg.email
       THEN /\ reg' = RegisterFail("failedValidationResponse", << >>)
            /\ users' = users
     ELSE /\ reg' = [reg EXCEPT !.pc = "permission", !.id = NextUserID]
          /\ users' = users @@ (NextUserID :> [email |-> reg.email, activated |-> FALSE,
                                               version |-> InitialVersion])
  /\ UNCHANGED <<act, tasks, wg, srv, tokens, permissions, req, guardVars, limVars>>

\* err = app.models.Permissions.AddForUser(user.ID, "movies:read")
RegisterPermission(fault) ==
  /\ Alive
  /\ reg.pc = "permission"
  /\ IF fault # "none"
       THEN /\ reg' = RegisterFail("serverErrorResponse", <<"inserting permissions", fault>>)
            /\ permissions' = permissions
       ELSE /\ reg' = [reg EXCEPT !.pc = "token"]
            /\ permissions' = permissions @@ (reg.id :> {"movies:read"})
  /\ UNCHANGED <<act, tasks, wg, srv, users, tokens, req, guardVars, limVars>>

\* token, err := app.models.Tokens.New(user.ID, 3*24*time.Hour, data.ScopeActivation)
RegisterToken(plain, fault) ==
  /\ Alive
  /\ reg.pc = "token"
  /\ \A r \in tokens : r.hash # Hash(<<plain>>)
  /\ LET token == generateToken(reg.id, ActivationTTL, ScopeActivation, <<plain>>) IN
       IF fault # "none"
         THEN /\ reg' = RegisterFail("serverErrorResponse", <<"inserting token", fault>>)
              /\ tokens' = tokens
         ELSE /\ reg' = [reg EXCEPT !.pc = "background", !.plain = token.Plaintext]
              /\ tokens' = tokens \cup {TokenInsert(token)}
  /\ UNCHANGED <<act, tasks, wg, srv, users, permissions, req, guardVars, limVars>>

\* a handler that sends the mail itself before it answers
RegisterInline ==
  /\ Alive
  /\ reg.pc = "background"
  /\ \E outcome \in Outcomes :
       LET task == background("nil", [to |-> reg.email, activationToken |-> reg.plain]) IN
         /\ tasks' = Append(tasks, IF outcome = "panic" THEN recovered(task)
                                   ELSE [task EXCEPT !.pc = "done", !.err = outcome,
                                                     !.outcome = outcome])
         /\ reg' = IF outcome = "panic"
                     THEN [reg EXCEPT !.pc = "done", !.task = Len(tasks) + 1,
                                      !.status = "serverErrorResponse"]
                     ELSE [reg EXCEPT !.pc = "write", !.task = Len(tasks) + 1]
  /\ UNCHANGED <<act, wg, srv, users, tokens, permissions, req, guardVars, limVars>>

\* app.background(func() {...}): returns once the goroutine is started
RegisterBackground ==
  /\ Alive
  /\ reg.pc = "background"
  /\ tasks' = Append(tasks, background("nil", [to |-> reg.email, activationToken |-> reg.plain]))
  /\ wg' = wg + 1
  /\ reg' = [reg EXCEPT !.pc = "write", !.task = Len(tasks) + 1]
  /\ UNCHANGED <<act, srv, users, tokens, permissions, req, guardVars, limVars>>

\* err = app.writeJSON(w, http.StatusCreated, envelope{"user": user}, nil):
\* the response is written and nil is assigned to err
RegisterWriteJSON ==
  /\ Alive
  /\ reg.pc = "write"
  /\ reg' = [reg EXCEPT !.pc = "check", !.status = "StatusCreated"]
  /\ tasks' = [tasks EXCEPT ![reg.task].err = "nil"]
  /\ UNCHANGED <<act, wg, srv, users, tokens, permissions, req, guardVars, limVars>>

\* if err != nil { app.serverErrorResponse(w, r, err) }: err is read
RegisterCheck ==
  /\ Alive
  /\ reg.pc = "check"
  /\ reg' = IF tasks[reg.task].err # "nil"
              THEN [reg EXCEPT !.pc = "done", !.extra = "serverErrorResponse",
                               !.logged = <<tasks[reg.task].err>>]
              ELSE [reg EXCEPT !.pc = "done"]
  /\ UNCHANGED <<act, tasks, wg, srv, users, tokens, permissions, req, guardVars, limVars>>

\* the closure on its goroutine: err = app.mailer.Send(...); a panic of
\* Send unwinds to the deferred calls of the goroutine
TaskSend(i, outcome) ==
  /\ Alive
  /\ i \in DOMAIN tasks
  /\ tasks[i].pc = "go"
  /\ IF outcome = "panic"
       THEN /\ tasks' = [tasks EXCEPT ![i] = recovered(@)]
            /\ wg' = wg - 1
       ELSE /\ tasks' = [tasks EXCEPT ![i].pc = "sent", ![i].err = outcome,
                                      ![i].outcome = outcome]
            /\ wg' = wg
  /\ UNCHANGED <<reg, act, srv, users, tokens, permissions, req, guardVars, limVars>>

\* if err != nil { app.logger.Error(err.Error()) }, then the goroutine ends
TaskCheck(i) ==
  /\ Alive
  /\ i \in DOMAIN tasks
  /\ tasks[i].pc = "sent"
  /\ tasks' = [tasks EXCEPT ![i].pc = "done",
                            ![i].logged = IF tasks[i].err # "nil" THEN <<tasks[i].err>> ELSE << >>]
  /\ wg' = wg - 1
  /\ UNCHANGED <<reg, act, srv, users, tokens, permissions, req, guardVars, limVars>>

\* the handler writes the response of the error helper and returns
ActivateFail(a, helper, event) ==
  [act EXCEPT ![a].pc = "done", ![a].status = helper, ![a].logged = event]

\* PUT /v1/users/activated reaches activateUserHandler: readJSON and
\* ValidateTokenPlaintext
ActivateBegin(a, body) ==
  /\ srv.pc = "serving"
  /\ act[a].pc \in {"idle", "done"}
  /\ act' = [act EXCEPT ![a] =
               IF ~body.json
                 THEN [NoActivate EXCEPT !.pc = "done", !.status = "badRequestResponse"]
               ELSE IF ~ValidateTokenPlaintext(body.token)
                 THEN [NoActivate EXCEPT !.pc = "done", !.status = "failedValidationResponse"]
               ELSE [NoActivate EXCEPT !.pc = "lookup", !.token = body.token]]
  /\ UNCHANGED <<reg, tasks, wg, srv, users, tokens, permissions, req, guardVars, limVars>>

\* user, err := app.models.Users.GetForToken(data.ScopeActivation, input.TokenPlaintext)
ActivateLookup(a, fault) ==
  /\ Alive
  /\ act[a].pc = "lookup"
  /\ LET got == GetForToken(ScopeActivation, act[a].token, now, fault) IN
       act' = CASE got.err = "ErrRecordNotFound" ->
                     ActivateFail(a, "failedValidationResponse", << >>)
                [] got.err # "nil" ->
                     ActivateFail(a, "serverErrorResponse", <<"querying user for token", fault>>)
                [] OTHER ->
                     [act EXCEPT ![a].pc = "update", ![a].id = got.user.ID,
                                 ![a].version = users[got.user.ID].version]
  /\ UNCHANGED <<reg, tasks, wg, srv, users, tokens, permissions, req, guardVars, limVars>>

\* user.Activated = true; err = app.models.Users.Update(user)
ActivateUpdate(a, fault) ==
  /\ Alive
  /\ act[a].pc = "update"
  /\ users[act[a].id].version < MaxVersion
  /\ IF fault # "none"
       THEN /\ act' = ActivateFail(a, "serverErrorResponse", <<"updating user", fault>>)
            /\ users' = users
     ELSE IF users[act[a].id].version # act[a].version
       THEN /\ act' = ActivateFail(a, "editConflictResponse", << >>)
            /\ users' = users
     ELSE /\ act' = [act EXCEPT ![a].pc = "delete", ![a].version = @ + 1]
          /\ users' = [users EXCEPT ![act[a].id].activated = TRUE,
                                    ![act[a].id].version = @ + 1]
  /\ UNCHANGED <<reg, tasks, wg, srv, tokens, permissions, req, guardVars, limVars>>

\* a handler whose two writes are one transaction: when the delete fails
\* the update of the user is rolled back
ActivateDeleteRollback(a, fault) ==
  /\ Alive
  /\ act[a].pc = "delete"
  /\ IF fault # "none"
       THEN /\ act' = ActivateFail(a, "serverErrorResponse",
                                   <<"deleting all tokens for user", fault>>)
            /\ tokens' = tokens
            /\ users' = [users EXCEPT ![act[a].id].activated = FALSE,
                                      ![act[a].id].version = @ - 1]
       ELSE /\ act' = [act EXCEPT ![a].pc = "write"]
            /\ tokens' = DeleteAllForUser(ScopeActivation, act[a].id)
            /\ users' = users
  /\ UNCHANGED <<reg, tasks, wg, srv, permissions, req, guardVars, limVars>>

\* err = app.models.Tokens.DeleteAllForUser(data.ScopeActivation, user.ID)
ActivateDelete(a, fault) ==
  /\ Alive
  /\ act[a].pc = "delete"
  /\ IF fault # "none"
       THEN /\ act' = ActivateFail(a, "serverErrorResponse",
                                   <<"deleting all tokens for user", fault>>)
            /\ tokens' = tokens
       ELSE /\ act' = [act EXCEPT ![a].pc = "write"]
            /\ tokens' = DeleteAllForUser(ScopeActivation, act[a].id)
  /\ UNCHANGED <<reg, tasks, wg, srv, users, permissions, req, guardVars, limVars>>

\* err = app.writeJSON(w, http.StatusOK, envelope{"user": user}, nil)
ActivateWrite(a) ==
  /\ Alive
  /\ act[a].pc = "write"
  /\ act' = [act EXCEPT ![a].pc = "done", ![a].status = "StatusOK"]
  /\ UNCHANGED <<reg, tasks, wg, srv, users, tokens, permissions, req, guardVars, limVars>>

\* s := <-quit, then srv.Shutdown(ctx) with a context of 30 seconds: the
\* listener is closed and ListenAndServe returns http.ErrServerClosed
Signal ==
  /\ srv.pc = "serving"
  /\ srv' = [srv EXCEPT !.pc = "shutdown"]
  /\ UNCHANGED <<reg, act, tasks, wg, users, tokens, permissions, req, guardVars, limVars>>

\* srv.Shutdown returns nil: no connection is serving a request
ShutdownIdle ==
  /\ srv.pc = "shutdown"
  /\ Active = {}
  /\ srv' = [srv EXCEPT !.pc = "stopped", !.result = "nil"]
  /\ UNCHANGED <<reg, act, tasks, wg, users, tokens, permissions, req, guardVars, limVars>>

\* the context of srv.Shutdown is done before the connections are idle:
\* Shutdown returns ctx.Err()
ShutdownDeadline ==
  /\ srv.pc = "shutdown"
  /\ Active # {}
  /\ srv' = [srv EXCEPT !.pc = "stopped", !.result = "context deadline exceeded",
                        !.expired = TRUE]
  /\ UNCHANGED <<reg, act, tasks, wg, users, tokens, permissions, req, guardVars, limVars>>

\* a serve that returns nil as soon as ListenAndServe has returned
\* http.ErrServerClosed, without receiving from shutdownError
ServeReturnEarly ==
  /\ srv.pc \in {"shutdown", "stopped"}
  /\ srv' = [srv EXCEPT !.pc = "exited", !.returned = "nil"]
  /\ UNCHANGED <<reg, act, tasks, wg, users, tokens, permissions, req, guardVars, limVars>>

\* err = <-shutdownError; if err != nil { return err }; return nil: serve
\* returns what the shutdown goroutine sent and main ends the process
ServeReturn ==
  /\ srv.pc = "stopped"
  /\ srv' = [srv EXCEPT !.pc = "exited", !.returned = srv.result]
  /\ UNCHANGED <<reg, act, tasks, wg, users, tokens, permissions, req, guardVars, limVars>>

\* the tokens in the store when the server starts: those of IssuedTokens
\* and an activation token of user 2 that is expired
StoredTokens ==
  IssuedTokens \cup {[hash |-> Hash(<<"tokX">>), userID |-> 2, expiry |-> 0,
                      scope |-> ScopeActivation]}

\* the server starts with two users that are not activated
InitUsers ==
  /\ users = [u \in UserIds |-> [email |-> IF u = 1 THEN "a@x" ELSE "c@x",
                                 activated |-> FALSE, version |-> InitialVersion]]
  /\ tokens = StoredTokens
  /\ permissions = [u \in UserIds |-> {"movies:read"}]
  /\ req = NoRequest
  /\ ServerIdle
  /\ GuardIdle
  /\ LimiterIdle

\* registrations, their background tasks and the shutdown of the server
NextUsers ==
  \/ \E body \in RegisterBodies : RegisterBegin(body)
  \/ \E fault \in Faults : RegisterInsert(fault)
  \/ \E fault \in Faults : RegisterPermission(fault)
  \/ \E plain \in Later, fault \in Faults : RegisterToken(plain, fault)
  \/ RegisterBackground
  \/ RegisterWriteJSON
  \/ RegisterCheck
  \/ \E i \in 1..MaxTasks, outcome \in Outcomes : TaskSend(i, outcome)
  \/ \E i \in 1..MaxTasks : TaskCheck(i)
  \/ Signal
  \/ ShutdownIdle
  \/ ShutdownDeadline
  \/ ServeReturn

SpecUsers == InitUsers /\ [][NextUsers]_vars

\* activations by two callers
NextActivate ==
  \/ \E a \in Activators, body \in ActivateBodies : ActivateBegin(a, body)
  \/ \E a \in Activators, fault \in Faults : ActivateLookup(a, fault)
  \/ \E a \in Activators, fault \in Faults : ActivateUpdate(a, fault)
  \/ \E a \in Activators, fault \in Faults : ActivateDelete(a, fault)
  \/ \E a \in Activators : ActivateWrite(a)

SpecActivate == InitUsers /\ [][NextActivate]_vars

(***************************************************************************)
(* Claims about the token store, the user handlers, the background tasks   *)
(* and the shutdown, checked under SpecUsers and SpecActivate.             *)
(***************************************************************************)

\* the events logged so far that the state still holds
Logged ==
  {reg.logged} \cup {tasks[i].logged : i \in DOMAIN tasks}
    \cup {act[a].logged : a \in Activators}

\* the event or column value v holds the plaintext word p
Holds(v, p) == \E i \in 1..Len(v) : v[i] = p

\* C24: no row of the tokens table and no logged event holds a token's
\* plaintext: a row has the columns hash, user id, expiry and scope, its
\* hash is the digest of the plaintext, and the row of a token that New made
\* is the one GetForToken finds under the digest of its plaintext.
C24_PlaintextNeverStoredOrLogged ==
  /\ \A r \in tokens :
       /\ DOMAIN r = {"hash", "userID", "expiry", "scope"}
       /\ Len(r.hash) = 2 /\ r.hash[1] = "sha256"
       /\ \A p \in Plain26 : ~Holds(r.hash, p)
  /\ \A e \in Logged : \A p \in Plain26 : ~Holds(e, p)
  /\ reg.plain # << >> =>
       /\ TokenRows(ScopeActivation, reg.plain, now) # {}
       /\ \A r \in TokenRows(ScopeActivation, reg.plain, now) : r.userID = reg.id

\* a registration was answered, its token is stored, its mail failed and
\* the failure was logged
C24_Witness ==
  /\ reg.status = "StatusCreated"
  /\ reg.plain = <<"tokD">>
  /\ tasks[reg.task].data.activationToken = <<"tokD">>
  /\ tasks[reg.task].logged = <<"sending msg">>
  /\ \E r \in tokens : r.hash = Hash(<<"tokD">>)

\* the activation tokens of user u in the store
ActivationTokens(u) == {r \in tokens : r.scope = ScopeActivation /\ r.userID = u}

\* activateUserHandler of caller a has answered 200
Activated(a) == act[a].pc = "done" /\ act[a].status = "StatusOK"

\* C25: when activateUserHandler has answered success for a user, the
\* store holds no activation token of that user, so none resolves; the rows
\* are deleted, and the step that deletes them leaves every token of
\* another scope or of another user in the store; no other step of the
\* handler changes the tokens table.
C25_ActivationTokensDeleted ==
  /\ [](\A a \in Activators :
          Activated(a) =>
            /\ ActivationTokens(act[a].id) = {}
            /\ \A t \in {<<p>> : p \in Plain26} :
                 \A r \in TokenRows(ScopeActivation, t, now) : r.userID # act[a].id
            /\ users[act[a].id].activated)
  /\ [][\A a \in Activators :
          /\ (act[a].pc = "delete" /\ act'[a].pc = "write") =>
               /\ \A r \in tokens' : r \in tokens
               /\ \A r \in tokens :
                    r \in tokens' <=> (r.scope # ScopeActivation \/ r.userID # act[a].id)
          /\ tokens' # tokens => \E b \in Activators : act[b].pc = "delete"]_vars

\* user 1 was activated: its authentication token and the activation token
\* of user 2 are still in the store
C25_Witness ==
  /\ \E a \in Activators : Activated(a) /\ act[a].id = 1
  /\ \E r \in tokens : r.userID = 1 /\ r.scope = ScopeAuthentication
  /\ ActivationTokens(2) # {}

\* task i panicked in mailer.Send
Panicked(i) == i \in DOMAIN tasks /\ tasks[i].outcome = "panic"

\* C28: a background task that panics is caught at the task boundary and
\* only logged: the step of the panic leaves the process and the request
\* that scheduled the task as they are and takes the task out of the count
\* of tasks in flight; the process is not terminated, the request that
\* scheduled the task is answered 201 and no error response, and a server
\* that accepts requests goes on accepting them.
C28_TaskPanicOnlyLogged ==
  /\ [](\A i \in DOMAIN tasks :
          Panicked(i) =>
            /\ tasks[i].pc = "done"
            /\ tasks[i].logged = <<"panic">>
            /\ srv.pc # "crashed"
            /\ (reg.task = i /\ reg.pc = "done") =>
                 reg.status = "StatusCreated" /\ reg.extra = "none")
  /\ [][\A i \in DOMAIN tasks :
          (~Panicked(i) /\ Panicked(i)') =>
            /\ srv' = srv
            /\ reg' = reg
            /\ wg' = wg - 1]_vars

\* the task of the first registration panicked and a second registration
\* was accepted and answered 201
C28_Witness ==
  /\ Panicked(1)
  /\ reg.task = 2
  /\ reg.status = "StatusCreated"
  /\ srv.pc = "serving"

\* C29: a request for which registerUserHandler scheduled the task is
\* answered 201 Created and no further error response, whenever and however
\* the task finishes.
C29_TaskNeverAffectsResponse ==
  (reg.task # 0 /\ reg.pc = "done") =>
    reg.status = "StatusCreated" /\ reg.extra = "none"

\* C30: after a shutdown signal serve returns, and the process exits, only
\* when no background task is in flight or the grace period is over.
C30_ExitWaitsForTasks ==
  srv.pc = "exited" => (wg = 0 \/ srv.expired)

\* C31: once the signal has come no new request is accepted, while a
\* request accepted before it may take its steps until the process exits;
\* Shutdown returns nil only when no request is being answered and the
\* deadline error only when the 30 seconds ended with a request still being
\* answered; serve returns only after Shutdown has returned, and it returns
\* what Shutdown returned: the error when the grace period was exceeded,
\* nil only when Shutdown completed cleanly.
C31_ServeReturnsShutdownResult ==
  /\ [](/\ srv.pc = "exited" =>
            /\ srv.result \in {"nil", "context deadline exceeded"}
            /\ srv.returned = srv.result
            /\ srv.returned = "nil" <=> ~srv.expired
        /\ srv.pc # "exited" => srv.returned = "none"
        /\ srv.pc \in {"serving", "shutdown"} => srv.result = "none")
  /\ [][/\ (srv.pc # "serving" /\ reg.pc \in {"idle", "done"}) => reg' = reg
        /\ (srv.result = "none" /\ srv'.result = "nil") => Active = {}
        /\ (srv.result = "none" /\ srv'.result = "context deadline exceeded") =>
             Active # {} /\ srv'.expired
        /\ srv.result # "none" => srv'.result = srv.result]_vars

\* a registration was still being answered when the 30 seconds ended: it
\* was answered 201 before the process exited and serve returned the error
\* of Shutdown
C31_Witness ==
  /\ srv.pc = "exited"
  /\ srv.returned = "context deadline exceeded"
  /\ reg.status = "StatusCreated"
  /\ reg.pc = "done"

\* the registration met an email address that is taken
Duplicate == reg.email # "" /\ reg.status = "failedValidationResponse"

\* C38: when Users.Insert reports a duplicate email the handler answers
\* failedValidationResponse and returns: the request has no user id, no
\* token and no task, the step that answers leaves users, permissions,
\* tokens and tasks as they are, and so does every step until the next
\* request is accepted.
C38_DuplicateEmailNoEffect ==
  /\ [](Duplicate =>
          /\ reg.pc = "done"
          /\ reg.id = 0 /\ reg.plain = << >> /\ reg.task = 0
          /\ reg.extra = "none"
          /\ \E u \in DOMAIN users : users[u].email = reg.email)
  /\ [][(Duplicate' /\ reg'.email = reg.email) =>
          /\ users' = users
          /\ permissions' = permissions
          /\ tokens' = tokens
          /\ Len(tasks') = Len(tasks)
          /\ wg' <= wg]_vars

\* a registration with the email of the user registered before it was
\* refused: the store holds the three users, the one token and the one
\* task of before
C38_Witness ==
  /\ Duplicate
  /\ reg.email = "b@x"
  /\ DOMAIN users = {1, 2, 3}
  /\ Len(tasks) = 1
  /\ Cardinality(tokens) = Cardinality(StoredTokens) + 1

\* C36: of the requests that present one valid activation token at most
\* one is answered success, and the version of the user it activates is
\* then one above the initial one.
C36_OneActivationPerToken ==
  /\ \A a, b \in Activators :
       (a # b /\ act[a].token = act[b].token) => ~(Activated(a) /\ Activated(b))
  /\ \A a \in Activators :
       Activated(a) => users[act[a].id].version = InitialVersion + 1

\* the request of caller a ended because DeleteAllForUser failed
DeleteFailed(a) ==
  /\ act[a].pc = "done"
  /\ Len(act[a].logged) = 2
  /\ act[a].logged[1] = "deleting all tokens for user"

\* C39: the two writes of activateUserHandler are not one transaction.  The
\* step in which DeleteAllForUser fails answers serverErrorResponse and
\* undoes nothing: the user keeps Activated and the version that Update
\* gave it, and no token leaves the store, so a token that resolved before
\* the step resolves after it.  The step in which Update fails, by an edit
\* conflict or a backend error, answers and ends the request with users and
\* tokens as they were; the tokens table changes only in the delete of a
\* request whose Update succeeded.
C39_ActivationNotAtomic ==
  /\ [][\A a \in Activators :
          /\ (act[a].pc = "delete" /\ act'[a].pc = "done") =>
               /\ act'[a].status = "serverErrorResponse"
               /\ DeleteFailed(a)'
               /\ tokens' = tokens
               /\ users' = users
               /\ users[act[a].id].activated
               /\ users[act[a].id].version >= act[a].version
          /\ (act[a].pc = "update" /\ act'[a].pc = "done") =>
               /\ act'[a].status \in {"editConflictResponse", "serverErrorResponse"}
               /\ act'[a].version = act[a].version
               /\ tokens' = tokens
               /\ users' = users
          /\ (act[a].pc = "update" /\ act'[a].pc = "delete") =>
               /\ users'[act[a].id].version = act[a].version + 1
               /\ act'[a].version = act[a].version + 1
          /\ tokens' # tokens => \E b \in Activators : act[b].pc = "delete" /\ act'[b].pc = "write"
          /\ act'[a].pc = "write" => act[a].pc \in {"delete", "write"}]_vars
  /\ [](\A a \in Activators :
          DeleteFailed(a) =>
            /\ act[a].status = "serverErrorResponse"
            /\ users[act[a].id].activated
            /\ users[act[a].id].version >= act[a].version
            /\ act[a].version >= InitialVersion + 1)

\* the delete of the only request failed: the user is activated at the
\* next version and its activation token still resolves
C39_Witness ==
  /\ DeleteFailed("a1")
  /\ act["a2"] = NoActivate
  /\ act["a1"].token = <<"tokC">>
  /\ users[1].activated /\ users[1].version = InitialVersion + 1
  /\ GetForToken(ScopeActivation, <<"tokC">>, now, "none").err = "nil"

(***************************************************************************)
(* The whole chain of routes: recoverPanic(rateLimit(authenticate(router))).*)
(*                                                                         *)
(* One request at a time is followed through the chain.  The section of    *)
(* rateLimit between mu.Lock and mu.Unlock is one step: the mutex lets no  *)
(* other goroutine see the table in between.                               *)
(***************************************************************************)

\* recoverPanic(next)
recoverPanic(next) == <<"recoverPanic">> \o next

\* rateLimit(next)
rateLimit(next) == <<"rateLimit">> \o next

\* a chain that authenticates before it limits the rate
routesAuthenticateFirst(gate) ==
  recoverPanic(<<"authenticate">> \o rateLimit(Tail(Chain(gate))))

\* routes: app.recoverPanic(app.rateLimit(app.authenticate(router)))
routes(gate) == recoverPanic(rateLimit(Chain(gate)))

\* a deferred function that answers the error and leaves the connection open
recoverPanicDeferredKeepAlive(r) ==
  [r EXCEPT !.chain = << >>, !.resp = "serverErrorResponse"]

\* the deferred function of recoverPanic after a panic:
\* w.Header().Set("Connection", "close"); app.serverErrorResponse
recoverPanicDeferred(r) ==
  [r EXCEPT !.chain = << >>, !.resp = "serverErrorResponse", !.closed = TRUE]

\* a request from addr enters the chain of routes
Accept(addr, header, gate, code) ==
  /\ srv.pc = "serving"
  /\ req.chain = << >>
  /\ gate # "requirePermission" => code = ""
  /\ gate = "requirePermission" => code \in Codes
  /\ req' = [NoRequest EXCEPT !.chain = routes(gate), !.header = header, !.gate = gate,
                              !.code = code, !.addr = addr,
                              !.follows = req.panicked # "none"]
  /\ UNCHANGED <<users, tokens, permissions, guardVars, limVars, srvVars>>

\* the handler of recoverPanic: the deferred function is set up and next is called
RecoverPanicHandler ==
  /\ Alive
  /\ At("recoverPanic")
  /\ req' = CallNext(req)
  /\ UNCHANGED <<users, tokens, permissions, guardVars, limVars, srvVars>>

\* the handler of rateLimit, from realip.FromRequest to next.ServeHTTP or
\* app.rateLimitExceededResponse; without the limiter rateLimit is next itself
RateLimitHandler ==
  /\ Alive
  /\ At("rateLimit")
  /\ IF ~Wrapped(cfg.enabled)
       THEN /\ req' = CallNext(req)
            /\ clients' = clients
       ELSE /\ CanLock(mu)
            /\ LET ip == FromRequest(req.addr)
                   found == IF Missing(clients, ip) THEN Put(clients, ip, NewClient) ELSE clients
                   seen == [found EXCEPT ![ip].lastSeen = Seen(found[ip], now)]
                   lim == [tokens |-> seen[ip].tokens, last |-> seen[ip].last]
                   ok == ReserveOK(lim, now, cfg.rps, cfg.burst)
                   after == Reserve(lim, now, cfg.rps, cfg.burst)
               IN
                 /\ clients' = [seen EXCEPT ![ip].tokens = after.tokens, ![ip].last = after.last]
                 /\ req' = IF ok THEN CallNext(req)
                           ELSE Respond(req, "rateLimitExceededResponse")
  /\ UNCHANGED <<users, tokens, permissions, cfg, mu, now, rq, sw, resp, tally, load,
                 guardVars, srvVars>>

\* the handler the request is at panics: the stack unwinds to the deferred
\* function of recoverPanic if recoverPanic is on it, else to the recover of
\* net/http, which ends the connection without a response
Panic ==
  /\ Alive
  /\ req.chain # << >>
  /\ ~At("recoverPanic")
  /\ LET r == [req EXCEPT !.trace = Append(@, Head(req.chain)), !.panicked = Head(req.chain)] IN
       req' = IF "recoverPanic" \in Ran
                THEN recoverPanicDeferred(r)
                ELSE [r EXCEPT !.chain = << >>, !.closed = TRUE]
  /\ UNCHANGED <<users, tokens, permissions, guardVars, limVars, srvVars>>

\* the server starts: user 1 is activated and may read movies, user 2 is
\* not activated; the limiter lets one request pass per tick
InitPipeline ==
  /\ users = [u \in UserIds |-> [activated |-> u = 1]]
  /\ tokens = IssuedTokens
  /\ permissions = [u \in UserIds |-> {"movies:read"}]
  /\ req = NoRequest
  /\ cfg \in [enabled : BOOLEAN, rps : Rates, burst : {1}, lastSeenMinutes : {1}]
  /\ clients = << >>
  /\ mu = Unlocked
  /\ now = 0
  /\ rq = << >>
  /\ sw = [pc |-> "off", scan |-> {}, nextTick |-> 0, found |-> {}, due |-> {}]
  /\ resp = << >>
  /\ tally = << >>
  /\ load = 0
  /\ GuardIdle
  /\ ServerIdle

NextPipeline ==
  \/ \E addr \in IPs, header \in Headers, gate \in Gates, code \in Codes \cup {""} :
       Accept(addr, header, gate, code)
  \/ RecoverPanicHandler
  \/ RateLimitHandler
  \/ \E fault \in Faults : AuthenticateHandler(fault)
  \/ AuthenticatedHandler
  \/ ActivatedHandler
  \/ \E fault \in Faults : PermissionHandler(fault)
  \/ RouteHandler
  \/ Panic
  \/ Tick

SpecPipeline == InitPipeline /\ [][NextPipeline]_vars

(***************************************************************************)
(* Claims about the chain of routes, checked under SpecPipeline.           *)
(***************************************************************************)

\* the layers of the chain, outermost first
Layers == <<"recoverPanic", "rateLimit", "authenticate", "requireAuthenticatedUser",
            "requireActivatedUser", "requirePermission", "handler">>

\* the place of a layer in the chain
Depth(name) == CHOOSE i \in 1..Len(Layers) : Layers[i] = name

\* the gates in front of the handler of a route wrapped by gate
GatesOf(gate) ==
  CASE gate = "requirePermission" ->
         {"requireAuthenticatedUser", "requireActivatedUser", "requirePermission"}
    [] gate = "requireActivatedUser" -> {"requireAuthenticatedUser", "requireActivatedUser"}
    [] gate = "requireAuthenticatedUser" -> {"requireAuthenticatedUser"}
    [] OTHER -> {}

\* the layer that ran last for the request
LastLayer == req.trace[Len(req.trace)]

\* C26: the layers run in the order panic recovery, rate limiter,
\* authentication, gates, handler, each at most once, and the request stops
\* at the first layer that answers an error: a request rejected by the rate
\* limiter has caused no token lookup and no permission lookup, a request
\* rejected by authenticate has reached no gate and no handler, and the
\* handler runs only after every layer in front of it has passed.
C26_LayersInOrder ==
  /\ \A i \in 1..Len(req.trace) :
       /\ i <= 3 => req.trace[i] = Layers[i]
       /\ i > 1 => Depth(req.trace[i - 1]) < Depth(req.trace[i])
  /\ req.lookups > 0 => "authenticate" \in Ran
  /\ req.fetches > 0 => "requirePermission" \in Ran
  /\ req.resp # "none" =>
       /\ req.chain = << >>
       /\ ~req.served
       /\ "handler" \in Ran => req.panicked = "handler"
  /\ req.resp = "rateLimitExceededResponse" =>
       /\ req.trace = <<"recoverPanic", "rateLimit">>
       /\ req.lookups = 0 /\ req.fetches = 0
       /\ req.user = NoUser
  /\ (req.resp # "none" /\ Len(req.trace) > 0 /\ LastLayer = "authenticate") =>
       /\ req.trace = <<"recoverPanic", "rateLimit", "authenticate">>
       /\ req.fetches = 0
  /\ req.resp = "invalidAuthenticationTokenResponse" => LastLayer = "authenticate"
  /\ req.served =>
       /\ req.resp = "none"
       /\ Ran = {"recoverPanic", "rateLimit", "authenticate", "handler"} \cup GatesOf(req.gate)

\* a request with the live token of user 2 was rejected by the rate limiter
C26_Witness ==
  /\ req.resp = "rateLimitExceededResponse"
  /\ req.header = <<"Bearer", " ", "tokB">>
  /\ req.gate = "requirePermission"
  /\ TokenRows(ScopeAuthentication, <<"tokB">>, now) # {}

\* C27: a panic in the rate limiter, in authenticate, in a gate or in the
\* handler is caught by recoverPanic: the request is answered the server
\* error with Connection: close and nothing behind the panic runs; the step
\* of the panic leaves the process, the tables and the mutex as they are,
\* and the server goes on serving requests.  No other response closes the
\* connection.
C27_PanicRecovered ==
  /\ [](/\ req.panicked # "none" =>
            /\ req.panicked \in {"rateLimit", "authenticate", "requireAuthenticatedUser",
                                 "requireActivatedUser", "requirePermission", "handler"}
            /\ req.resp = "serverErrorResponse"
            /\ req.closed
            /\ req.chain = << >>
            /\ ~req.served
            /\ LastLayer = req.panicked
            /\ srv.pc = "serving"
        /\ req.closed => req.panicked # "none")
  /\ [][(req.panicked = "none" /\ req'.panicked # "none") =>
          /\ srv' = srv
          /\ mu' = mu /\ mu = Unlocked
          /\ clients' = clients
          /\ <<users, tokens, permissions>>' = <<users, tokens, permissions>>]_vars

\* the request went through the chain to its end
Finished == req.chain = << >> /\ Len(req.trace) > 0

\* C32: a request without Authorization header to GET /v1/healthcheck that
\* the rate limiter admits, and in which nothing panics, is answered 200
\* with status available: it passes recoverPanic, rateLimit and
\* authenticate, which sets the anonymous user without a lookup, and
\* reaches the handler through no gate.
C32_HealthcheckAvailable ==
  (/\ Finished
   /\ req.gate = "none" /\ req.header = << >>
   /\ req.resp # "rateLimitExceededResponse"
   /\ req.panicked = "none") =>
    /\ req.served
    /\ req.resp = "none"
    /\ req.wrote = <<"StatusOK", "available">>
    /\ req.trace = <<"recoverPanic", "rateLimit", "authenticate", "handler">>
    /\ req.user = AnonymousUser
    /\ req.lookups = 0 /\ req.fetches = 0

\* with the limiter on, an anonymous request to the healthcheck was answered 200
C32_Witness ==
  /\ cfg.enabled
  /\ Finished
  /\ req.gate = "none" /\ req.header = << >>
  /\ req.wrote = <<"StatusOK", "available">>
  /\ req.addr \in DOMAIN clients

\* the header carries a credential that no time makes good: it is
\* malformed, its token is ill-shaped, or no authentication token of the
\* store has its hash
NeverGood(header) ==
  /\ header # << >>
  /\ \/ ~WellShaped(header)
     \/ ~ValidateTokenPlaintext(TokenOf(header))
     \/ \A r \in tokens :
          ~(r.hash = Hash(TokenOf(header)) /\ r.scope = ScopeAuthentication)

\* C35: on every route, gated or not, a request with a malformed,
\* ill-shaped, unknown or expired bearer credential that reaches
\* authenticate, whose lookup the backend answers and in which nothing
\* panics, is answered invalidAuthenticationTokenResponse by authenticate;
\* no gate and no handler runs for it.  The step of authenticate answers so
\* whenever no live authentication token of the store matches at that time.
C35_BadCredentialRejectedEverywhere ==
  /\ []((/\ Finished
         /\ NeverGood(req.header)
         /\ req.resp # "rateLimitExceededResponse"
         /\ req.panicked = "none" /\ req.fault = "none") =>
          /\ req.resp = "invalidAuthenticationTokenResponse"
          /\ LastLayer = "authenticate"
          /\ ~req.served /\ req.wrote = << >>
          /\ req.fetches = 0)
  /\ [](req.resp = "invalidAuthenticationTokenResponse" =>
          ~req.served /\ "handler" \notin Ran /\ Ran \cap GatesOf("requirePermission") = {})
  /\ [][(/\ At("authenticate") /\ req' # req
         /\ req.header # << >>
         /\ req'.panicked = "none" /\ req'.fault = "none"
         /\ WellShaped(req.header) =>
              TokenRows(ScopeAuthentication, TokenOf(req.header), now) = {}) =>
          /\ req'.resp = "invalidAuthenticationTokenResponse"
          /\ req'.chain = << >>
          /\ ~req'.served]_vars

\* a request with the expired token of user 1 to a route behind no gate was
\* rejected by authenticate
C35_Witness ==
  /\ req.gate = "none"
  /\ req.header = <<"Bearer", " ", "tokA">>
  /\ req.resp = "invalidAuthenticationTokenResponse"
  /\ req.lookups = 1
  /\ TokenRows(ScopeAuthentication, <<"tokA">>, now) = {}
  /\ \E r \in tokens : r.hash = Hash(<<"tokA">>) /\ r.scope = ScopeAuthentication

\* the request after one whose handler panicked was served
C27_Witness ==
  /\ req.follows
  /\ req.served
  /\ req.gate = "requirePermission"

====
